---- MODULE Spec2Model ----
(***************************************************************************)
(* Model of the video assembly pipeline of faceless-video-automation:      *)
(* createShort (editor.ts) and the helpers it calls.                       *)
(*                                                                         *)
(* Time is measured in ticks of half a second, so that the 2.5 s cap of    *)
(* the intro/outro captions is the integer 5.  Caption windows are         *)
(* rationals with denominator sentences.length + 2; they are stored as     *)
(* numerators over that common denominator (slotDen).                      *)
(*                                                                         *)
(* Every awaited external call (file system, prober, transcoding engine,   *)
(* network) either resolves or rejects; the choice is nondeterministic.    *)
(*                                                                         *)
(* Spec is a whole run of createShort.  SpecCues is Step 5 of a run (the   *)
(* caption windows) for a larger range of scripts and durations.           *)
(***************************************************************************)
EXTENDS Integers, Sequences, FiniteSets, TLC

\* ---------------------------------------------------------------- bounds
MaxScriptLen == 1
MaxAssets == 2
MaxD == 3
MaxClipDur == 1
MaxMusicDur == 1
\* scripts and narration durations of the caption scheduling on its own
MaxCueScriptLen == 5
MaxCueD == 30
\* narration texts of up to MaxRuns runs of characters
MaxRuns == 5
\* entries of the music folder
MaxMusicFiles == 3
\* createShort runs that may overlap, and how far the clock runs (ticks)
MaxJobs == 2
MaxClock == 3

\* most niches one batch-multi invocation is given
MaxNiches == 3

\* longest sentence followed into a drawtext filter (characters)
MaxSentenceLen == 3

\* most entries under assets/ and under output/ when cleanup runs
MaxEntries == 2

\* largest maxRetries passed to downloadAssetWithRetry
MaxAttempts == 3

\* largest count asked of downloadAssets, and most results one search returns
MaxCount == 2
MaxFound == 2

\* most videos handed to concatenateVideos, and the longest of them (seconds)
MaxJoin == 3
MaxJoinDur == 2

\* most videos handed to the legacy createVideo
MaxLegacyVideos == 3

\* most lines of the niches file, and the largest --count of the scheduler
MaxLines == 3
MaxPerRun == 2

\* most lines of a text handed to parseViralScript
MaxTextLines == 5

\* ------------------------------------------------------ program constants
\* Math.min(2.5, timePerSentence): 2.5 s in ticks
IntroOutroCap == 5
\* inputOptions(['-loop 1', '-t 5']): 5 s in ticks
ImageHold == 10
\* inputOptions(['-f lavfi', '-t 60']): 60 s in ticks
SilentMusicDur == 120
\* Math.max(10, ...) and Math.min(45, ...) of the silent narration, in ticks
MinSilence == 20
MaxSilence == 90

\* results of Math.ceil(ttsDuration / totalVideoDuration) that are no number
Infinity == 0 - 1
NaN == 0 - 2

\* ------------------------------------------------------------- the inputs
\* " " is white space, "." stands for the sentence terminators . ! ?,
\* "a" and "b" are ordinary characters
Chars == {" ", "a", "b", "."}

\* The files of the run's world.  clip.mp4 and photo.jpg are sound media,
\* broken.mp4 exists but the transcoding engine rejects it, missing.mp4 is
\* not on disk.
AssetPool == {"clip.mp4", "photo.jpg", "broken.mp4", "missing.mp4"}

SeqsUpTo(S, n) == UNION {[1..k -> S] : k \in 0..n}

Min(a, b) == IF a <= b THEN a ELSE b

Max(a, b) == IF a >= b THEN a ELSE b

\* ------------------------------------------------------- pure functions
\* fs.pathExists(assetPath)
pathExists(p) == p # "missing.mp4"

\* ['.jpg', '.jpeg', '.png', '.webp'].includes(ext)
isImage(p) == p = "photo.jpg"

\* whether the engine's scale+crop of the asset ends with 'end' (not 'error')
Transcodable(p) == p # "broken.mp4"

RECURSIVE TrimLeft(_)
TrimLeft(s) == IF s # <<>> /\ Head(s) = " " THEN TrimLeft(Tail(s)) ELSE s

RECURSIVE TrimRight(_)
TrimRight(s) ==
  IF s # <<>> /\ s[Len(s)] = " " THEN TrimRight(SubSeq(s, 1, Len(s) - 1)) ELSE s

\* String.prototype.trim
Trim(s) == TrimRight(TrimLeft(s))

\* script.split(/[.!?]+/): the pieces between terminators.  A run of
\* terminators yields empty pieces here, which the filter below removes,
\* as it removes the empty piece a leading or trailing terminator yields.
RECURSIVE SplitPieces(_, _)
SplitPieces(s, cur) ==
  IF s = <<>> THEN <<cur>>
  ELSE IF Head(s) = "." THEN <<cur>> \o SplitPieces(Tail(s), <<>>)
  ELSE SplitPieces(Tail(s), Append(cur, Head(s)))

RECURSIVE TrimAndFilter(_)
TrimAndFilter(ps) ==
  IF ps = <<>> THEN <<>>
  ELSE IF Trim(Head(ps)) = <<>> THEN TrimAndFilter(Tail(ps))
  ELSE <<Trim(Head(ps))>> \o TrimAndFilter(Tail(ps))

splitScriptIntoSentences(s) == TrimAndFilter(SplitPieces(s, <<>>))

\* what getVideoDuration reports for the normalized clip of an asset: a still
\* image is held for 5 s; `metadata.format.duration || 0` is 0 when the
\* container carries no duration
ProbedDurations(p) == IF isImage(p) THEN {ImageHold} ELSE 0..MaxClipDur

\* total duration of the files a concat list names
RECURSIVE RawDuration(_, _)
RawDuration(lines, durs) ==
  IF lines = <<>> THEN 0 ELSE durs[Head(lines)] + RawDuration(Tail(lines), durs)

\* Math.ceil(a / b) for a >= 0, b > 0
CeilDiv(a, b) == (a + b - 1) \div b

\* Math.floor in place of Math.ceil
ComputeLoops_Floor(d, t) ==
  IF t > 0 THEN d \div t
  ELSE IF d > 0 THEN Infinity
  ELSE NaN

\* Math.ceil(ttsDuration / totalVideoDuration) with IEEE division by zero
ComputeLoops(d, t) ==
  IF t > 0 THEN CeilDiv(d, t)
  ELSE IF d > 0 THEN Infinity
  ELSE NaN

\* the outer loop starting at 1 instead of 0
RECURSIVE Repeat_OneShort(_, _)
Repeat_OneShort(clips, n) == IF n <= 1 THEN <<>> ELSE clips \o Repeat_OneShort(clips, n - 1)

\* the nested loop pushing the clip sequence `n` times
RECURSIVE Repeat(_, _)
Repeat(clips, n) == IF n <= 0 THEN <<>> ELSE clips \o Repeat(clips, n - 1)

\* one second of wall clock, in ticks
TicksPerSecond == 2

\* the TTS request limit, in characters
MAX_LENGTH == 200

\* Math.max(10, Math.min(45, text.length / 450 * 60)) seconds, in whole ticks
EstimatedDuration(len) == Max(MinSilence, Min(MaxSilence, (len * 4) \div 15))

\* ------------------------------------------------------------------ state
VARIABLES
  script, assetPaths,            \* params
  pc,                            \* position in createShort
  tempDir,                       \* '' or the workspace path
  outputDirExists, tempDirExists,\* directories on disk
  tempFiles,                     \* files inside the workspace
  finalVideo,                    \* "absent", "partial" or "complete"
  captionFile, hashtagsFile,     \* side-files on disk
  ttsMode, ttsDuration,
  musicPath,
  i, processedVideos,
  clipDurations,                 \* duration of each normalized clip, by position
  totalVideoDuration,
  loops, concatLines,
  slotDen, textFilters,
  videoDuration, audioDuration, finalDuration,
  musicDuration,                 \* length of the music track the mix read
  raised,                        \* the error thrown inside the try block
  result, error,                 \* how createShort settled
  log                            \* external operations, in invocation order

params == <<script, assetPaths>>

disk == <<outputDirExists, tempDirExists, tempFiles, finalVideo, captionFile, hashtagsFile>>

narration == <<ttsMode, ttsDuration>>

clips == <<i, processedVideos, clipDurations, totalVideoDuration>>

playlist == <<loops, concatLines>>

overlays == <<slotDen, textFilters>>

durations == <<videoDuration, audioDuration, finalDuration, musicDuration>>

outcome == <<raised, result, error>>

\* createShort's own state
run == <<params, pc, tempDir, disk, narration, musicPath, clips, playlist, overlays, durations, outcome, log>>

\* generateTTSAudio followed call by call
VARIABLES
  text,                          \* the narration text, as runs of characters
  chunks,                        \* the TTS chunks the text was split into
  chunkPaths,                    \* tts-chunk-<i>.mp3 written so far, by index i
  chunkAudio,                    \* duration of each written chunk file
  ttsPc,                         \* position in generateTTSAudio
  outputAudio,                   \* what outputPath holds
  ttsResult,                     \* how generateTTSAudio settled
  estimatedDuration              \* the -t value of the silent placeholder

synth == <<text, chunks, chunkPaths, chunkAudio, ttsPc, outputAudio, ttsResult, estimatedDuration>>

\* getBackgroundMusic followed call by call
VARIABLES
  musicDirExists,                \* whether <cwd>/music exists
  musicFiles,                    \* its entries, in readdir order
  musicPc,                       \* position in getBackgroundMusic
  musicLog,                      \* its external operations, in invocation order
  musicReturn,                   \* the path it returned
  musicResult                    \* how it settled

bgm == <<musicDirExists, musicFiles, musicPc, musicLog, musicReturn, musicResult>>

\* several createShort runs under one output directory
VARIABLES
  clock,                         \* the wall clock, in ticks
  jobPc,                         \* position of each run
  jobTempDir,                    \* each run's tempDir
  workspaces,                    \* the temp-<timestamp> directories on disk
  intermediates                  \* their files, each with the run that wrote it

race == <<clock, jobPc, jobTempDir, workspaces, intermediates>>

\* createShort's external operations, each from its call to its settling
VARIABLES
  todo,                          \* the awaited calls still ahead, in program order
  flowMode,                      \* "try", "catch" or "settled"
  awaiting,                      \* the call createShort is suspended on
  inflight,                      \* the calls made and not yet settled
  events                         \* calls and settlings, in the order they happen

flow == <<todo, flowMode, awaiting, inflight, events>>

\* the batch-multi command followed run by run
VARIABLES
  niches,                        \* the niches to process, in input order
  batchIndex,                    \* the loop variable i
  batchPc,                       \* position in the batch-multi loop
  batchClock,                    \* the wall clock, in ticks
  attempts,                      \* the runBatchPipeline calls made, in order
  successful,                    \* results.successful
  failed                         \* results.failed

batch == <<niches, batchIndex, batchPc, batchClock, attempts, successful, failed>>

\* one sentence on its way into a drawtext filter and through the engine's parser
VARIABLES
  sentence,                      \* one sentence of the script, as characters
  escaped,                       \* the sentence after the quote replacement
  filterArgs,                    \* the arguments of the drawtext filter, as handed to the engine
  graphArgs,                     \* the arguments as the filtergraph parser passes them on
  parsedWhole,                   \* whether the filtergraph parser took the whole string as this filter's arguments
  options,                       \* the option strings the filter's own parser cuts them into
  drawPc                         \* position between line 951 and the engine's option parser

overlay == <<sentence, escaped, filterArgs, graphArgs, parsedWhole, options, drawPc>>

\* the cleanup command, first with --dry-run and then without
VARIABLES
  assetEntries,                  \* what readdir lists under assets/ at the start
  outputEntries,                 \* what readdir lists under output/ at the start
  present,                       \* the listed entries still on disk
  dryRun,                        \* options.dryRun of the invocation under way
  cleanPc,                       \* position in the cleanup command
  scanDir,                       \* the directory being scanned
  scanAt,                        \* how many of its entries were looked at
  report,                        \* the folders announced, totalFoldersRemoved and totalSpaceFreed
  dryReport                      \* what the --dry-run invocation reported

sweep == <<assetEntries, outputEntries, present, dryRun, cleanPc, scanDir, scanAt, report, dryReport>>

\* downloadAssetWithRetry followed attempt by attempt
VARIABLES
  maxRetries,                    \* the maxRetries argument
  attempt,                       \* the loop variable attempt
  retryPc,                       \* position in downloadAssetWithRetry
  retryClock,                    \* the wall clock, in seconds
  tries,                         \* the attempts made, in order
  lastError,                     \* lastError
  retryResult                    \* how downloadAssetWithRetry settled

retry == <<maxRetries, attempt, retryPc, retryClock, tries, lastError, retryResult>>

\* downloadAssets followed search by search and download by download
VARIABLES
  count,                         \* the count argument
  fetchPc,                       \* position in downloadAssets
  videosToDownload,              \* the videos picked from the search result
  photosToDownload,              \* the photos picked from the search result
  fetchAt,                       \* the loop variable i of the download loop under way
  downloadedAssets,              \* downloadedAssets
  fetchLog,                      \* the searches, downloads and file operations made, in order
  fetchResult                    \* how downloadAssets settled

fetch == <<count, fetchPc, videosToDownload, photosToDownload, fetchAt, downloadedAssets, fetchLog, fetchResult>>

\* concatenateVideos followed call by call
VARIABLES
  videoPaths,                    \* the videos to join, each with its duration
  targetDuration,                \* the targetDuration argument, 0 for null
  joinPc,                        \* position in concatenateVideos
  joinLog,                       \* its external operations, in invocation order
  listFile,                      \* whether concat-list.txt is on disk
  joined,                        \* what outputPath holds
  joinResult                     \* how concatenateVideos settled

joiner == <<videoPaths, targetDuration, joinPc, joinLog, listFile, joined, joinResult>>

\* the legacy createVideo followed call by call
VARIABLES
  legacyVideos,                  \* assets.videos
  legacyPc,                      \* position in createVideo
  legacyAt,                      \* the loop variable i of Step 1
  legacyProcessed,               \* processedVideos, by input index
  legacyTempDir,                 \* whether temp-<timestamp> is on disk
  legacyLog,                     \* its external operations, in invocation order
  legacyResult                   \* how createVideo settled

legacy == <<legacyVideos, legacyPc, legacyAt, legacyProcessed, legacyTempDir, legacyLog, legacyResult>>

\* one run of the scheduler's cron callback
VARIABLES
  nichesFile,                    \* the lines of the niches file
  perRun,                        \* the --count option
  schedPc,                       \* position in the cron callback
  availableNiches,               \* availableNiches, each with the file line it came from
  selectedNiches,                \* selectedNiches, each with the file line it came from
  schedAt,                       \* the loop variable i of the processing loop
  schedRuns                      \* the runBatchPipeline calls made, in order

sched == <<nichesFile, perRun, schedPc, availableNiches, selectedNiches, schedAt, schedRuns>>

\* one call of parseViralScript
VARIABLES
  scriptText,                    \* the raw text handed to parseViralScript
  parsePc,                       \* position in parseViralScript
  parsed                         \* the result object

parser == <<scriptText, parsePc, parsed>>

\* the functions that are also followed on their own
units == <<synth, bgm, race, flow, batch, overlay, sweep, retry, fetch, joiner, legacy, sched, parser>>

\* all but generateTTSAudio's state
asideSynth == <<run, bgm, race, flow, batch, overlay, sweep, retry, fetch, joiner, legacy, sched, parser>>

\* all but getBackgroundMusic's state
asideMusic == <<run, synth, race, flow, batch, overlay, sweep, retry, fetch, joiner, legacy, sched, parser>>

\* all but the state of the concurrent runs
asideRace == <<run, synth, bgm, flow, batch, overlay, sweep, retry, fetch, joiner, legacy, sched, parser>>

\* all but the state of the calls in flight
asideFlow == <<run, synth, bgm, race, batch, overlay, sweep, retry, fetch, joiner, legacy, sched, parser>>

\* all but the state of batch-multi
asideBatch == <<run, synth, bgm, race, flow, overlay, sweep, retry, fetch, joiner, legacy, sched, parser>>

\* all but the state of the drawtext filter
asideOverlay == <<run, synth, bgm, race, flow, batch, sweep, retry, fetch, joiner, legacy, sched, parser>>

\* all but the state of the cleanup command
asideSweep == <<run, synth, bgm, race, flow, batch, overlay, retry, fetch, joiner, legacy, sched, parser>>

\* all but the state of downloadAssetWithRetry
asideRetry == <<run, synth, bgm, race, flow, batch, overlay, sweep, fetch, joiner, legacy, sched, parser>>

\* all but the state of downloadAssets
asideFetch == <<run, synth, bgm, race, flow, batch, overlay, sweep, retry, joiner, legacy, sched, parser>>

\* all but the state of concatenateVideos
asideJoiner == <<run, synth, bgm, race, flow, batch, overlay, sweep, retry, fetch, legacy, sched, parser>>

\* all but the state of createVideo
asideLegacy == <<run, synth, bgm, race, flow, batch, overlay, sweep, retry, fetch, joiner, sched, parser>>

\* all but the state of the cron callback
asideSched == <<run, synth, bgm, race, flow, batch, overlay, sweep, retry, fetch, joiner, legacy, parser>>

\* all but parseViralScript's state
asideParser == <<run, synth, bgm, race, flow, batch, overlay, sweep, retry, fetch, joiner, legacy, sched>>

vars == <<run, units>>

NoAudio == [via |-> "none", parts |-> <<>>, duration |-> 0]

\* generateTTSAudio not called
SynthIdle ==
  /\ text = <<>>
  /\ chunks = <<>>
  /\ chunkPaths = <<>>
  /\ chunkAudio = <<>>
  /\ ttsPc = "idle"
  /\ outputAudio = NoAudio
  /\ ttsResult = "pending"
  /\ estimatedDuration = 0

NoPath == [dir |-> "none", stem |-> "", ext |-> ""]

\* getBackgroundMusic not called
MusicIdle ==
  /\ musicDirExists = FALSE
  /\ musicFiles = <<>>
  /\ musicPc = "idle"
  /\ musicLog = <<>>
  /\ musicReturn = NoPath
  /\ musicResult = "pending"

Jobs == 1..MaxJobs

\* no run started
RaceIdle ==
  /\ clock = 0
  /\ jobPc = [j \in Jobs |-> "idle"]
  /\ jobTempDir = [j \in Jobs |-> ""]
  /\ workspaces = {}
  /\ intermediates = {}

NoCall == <<"none", 0>>

\* no call made
FlowIdle ==
  /\ todo = <<>>
  /\ flowMode = "idle"
  /\ awaiting = NoCall
  /\ inflight = {}
  /\ events = <<>>

\* batch-multi not invoked
BatchIdle ==
  /\ niches = <<>>
  /\ batchIndex = 0
  /\ batchPc = "idle"
  /\ batchClock = 0
  /\ attempts = <<>>
  /\ successful = <<>>
  /\ failed = <<>>

\* no sentence being embedded
OverlayIdle ==
  /\ sentence = <<>>
  /\ escaped = <<>>
  /\ filterArgs = <<>>
  /\ graphArgs = <<>>
  /\ parsedWhole = FALSE
  /\ options = <<>>
  /\ drawPc = "idle"

NoReport == [folders |-> <<>>, count |-> 0, size |-> 0]

\* cleanup not invoked
SweepIdle ==
  /\ assetEntries = <<>>
  /\ outputEntries = <<>>
  /\ present = {}
  /\ dryRun = FALSE
  /\ cleanPc = "idle"
  /\ scanDir = "assets"
  /\ scanAt = 0
  /\ report = NoReport
  /\ dryReport = NoReport

NoSettling == [how |-> "pending", attempts |-> 0, message |-> ""]

\* downloadAssetWithRetry not called
RetryIdle ==
  /\ maxRetries = 0
  /\ attempt = 0
  /\ retryPc = "idle"
  /\ retryClock = 0
  /\ tries = <<>>
  /\ lastError = "null"
  /\ retryResult = NoSettling

NoFetchResult == [how |-> "pending", cause |-> "", assets |-> <<>>]

\* downloadAssets not called
FetchIdle ==
  /\ count = 0
  /\ fetchPc = "idle"
  /\ videosToDownload = <<>>
  /\ photosToDownload = <<>>
  /\ fetchAt = 0
  /\ downloadedAssets = <<>>
  /\ fetchLog = <<>>
  /\ fetchResult = NoFetchResult

NoVideo == [via |-> "none", duration |-> 0]

NoJoinResult == [how |-> "pending", message |-> ""]

\* concatenateVideos not called
JoinerIdle ==
  /\ videoPaths = <<>>
  /\ targetDuration = 0
  /\ joinPc = "idle"
  /\ joinLog = <<>>
  /\ listFile = FALSE
  /\ joined = NoVideo
  /\ joinResult = NoJoinResult

NoLegacyResult == [how |-> "pending", message |-> ""]

\* createVideo not called
LegacyIdle ==
  /\ legacyVideos = <<>>
  /\ legacyPc = "idle"
  /\ legacyAt = 0
  /\ legacyProcessed = <<>>
  /\ legacyTempDir = FALSE
  /\ legacyLog = <<>>
  /\ legacyResult = NoLegacyResult

\* no scheduled run
SchedIdle ==
  /\ nichesFile = <<>>
  /\ perRun = 0
  /\ schedPc = "idle"
  /\ availableNiches = <<>>
  /\ selectedNiches = <<>>
  /\ schedAt = 0
  /\ schedRuns = <<>>

\* the result object as constructed: three empty strings
EmptyViralScript == [script |-> <<>>, caption |-> <<>>, hashtags |-> <<>>]

\* no parse
ParserIdle ==
  /\ scriptText = <<>>
  /\ parsePc = "idle"
  /\ parsed = EmptyViralScript

UnitsIdle == SynthIdle /\ MusicIdle /\ RaceIdle /\ FlowIdle /\ BatchIdle /\ OverlayIdle /\ SweepIdle /\ RetryIdle /\ FetchIdle /\ JoinerIdle /\ LegacyIdle /\ SchedIdle /\ ParserIdle

Op(name, idx, ok) == [op |-> name, idx |-> idx, ok |-> ok]

\* a rejected await inside the try block: control passes to the catch block
Throw(e) == pc' = "catch" /\ raised' = e /\ UNCHANGED <<result, error>>

Init ==
  /\ script \in SeqsUpTo(Chars, MaxScriptLen)
  /\ assetPaths \in SeqsUpTo(AssetPool, MaxAssets)
  /\ pc = "validate"
  /\ tempDir = ""
  /\ outputDirExists = FALSE
  /\ tempDirExists = FALSE
  /\ tempFiles = {}
  /\ finalVideo = "absent"
  /\ captionFile = FALSE
  /\ hashtagsFile = FALSE
  /\ ttsMode = "none"
  /\ ttsDuration = 0
  /\ musicPath = "none"
  /\ i = 0
  /\ processedVideos = <<>>
  /\ clipDurations = <<>>
  /\ totalVideoDuration = 0
  /\ loops = 0
  /\ concatLines = <<>>
  /\ slotDen = 1
  /\ textFilters = <<>>
  /\ videoDuration = 0
  /\ audioDuration = 0
  /\ finalDuration = 0
  /\ musicDuration = 0
  /\ raised = "none"
  /\ result = "pending"
  /\ error = "none"
  /\ log = <<>>
  /\ UnitsIdle

\* ---------------------------------------------------------------- actions
\* Validate without the check that every asset file exists
Validate_NoExistsCheck ==
  /\ pc = "validate"
  /\ IF script = <<>> \/ Trim(script) = <<>>
       THEN Throw("Script cannot be empty")
     ELSE IF assetPaths = <<>>
       THEN Throw("At least one asset path is required")
     ELSE pc' = "ensureOutputDir" /\ UNCHANGED outcome
  /\ UNCHANGED <<params, tempDir, disk, narration, musicPath, clips, playlist, overlays, durations, log>>
  /\ UNCHANGED units

\* Validate inputs (the three precondition checks, in source order)
Validate ==
  /\ pc = "validate"
  /\ IF script = <<>> \/ Trim(script) = <<>>
       THEN Throw("Script cannot be empty")
     ELSE IF assetPaths = <<>>
       THEN Throw("At least one asset path is required")
     ELSE IF \E k \in 1..Len(assetPaths) : ~pathExists(assetPaths[k])
       THEN Throw("Asset file not found")
     ELSE pc' = "ensureOutputDir" /\ UNCHANGED outcome
  /\ UNCHANGED <<params, tempDir, disk, narration, musicPath, clips, playlist, overlays, durations, log>>
  /\ UNCHANGED units

\* await fs.ensureDir(outputDir)
EnsureOutputDir ==
  /\ pc = "ensureOutputDir"
  /\ \/ /\ outputDirExists' = TRUE
        /\ pc' = "ensureTempDir"
        /\ UNCHANGED outcome
     \/ /\ ~outputDirExists
        /\ Throw("ensureDir failed")
        /\ UNCHANGED outputDirExists
  /\ UNCHANGED <<params, tempDir, tempDirExists, tempFiles, finalVideo, captionFile, hashtagsFile>>
  /\ UNCHANGED <<narration, musicPath, clips, playlist, overlays, durations, log>>
  /\ UNCHANGED units

\* tempDir = path.join(outputDir, `temp-${timestamp}`); await fs.ensureDir(tempDir)
EnsureTempDir ==
  /\ pc = "ensureTempDir"
  /\ tempDir' = "temp"
  /\ \/ /\ tempDirExists' = TRUE
        /\ pc' = "tts"
        /\ UNCHANGED outcome
     \/ /\ Throw("ensureDir failed")
        /\ UNCHANGED tempDirExists
  /\ UNCHANGED <<params, outputDirExists, tempFiles, finalVideo, captionFile, hashtagsFile>>
  /\ UNCHANGED <<narration, musicPath, clips, playlist, overlays, durations, log>>
  /\ UNCHANGED units

\* GenerateTTS going on to the music without the narration being probed
GenerateTTS_SkipProbe ==
  /\ pc = "tts"
  /\ \/ /\ \E m \in {"speech", "silence"} : ttsMode' = m
        /\ tempFiles' = tempFiles \cup {<<"tts-narration.mp3", 0>>}
        /\ log' = Append(log, Op("tts", 0, TRUE))
        /\ pc' = "music"
        /\ UNCHANGED outcome
     \/ /\ Throw("TTS failed")
        /\ log' = Append(log, Op("tts", 0, FALSE))
        /\ UNCHANGED <<ttsMode, tempFiles>>
  /\ UNCHANGED <<params, tempDir, outputDirExists, tempDirExists, finalVideo, captionFile, hashtagsFile>>
  /\ UNCHANGED <<ttsDuration, musicPath, clips, playlist, overlays, durations>>
  /\ UNCHANGED units

\* Step 1: await generateTTSAudio(script, ttsAudioPath): real speech, or the
\* silent placeholder when synthesis fails, or a rejection when the
\* placeholder cannot be generated either
GenerateTTS ==
  /\ pc = "tts"
  /\ \/ /\ \E m \in {"speech", "silence"} : ttsMode' = m
        /\ tempFiles' = tempFiles \cup {<<"tts-narration.mp3", 0>>}
        /\ log' = Append(log, Op("tts", 0, TRUE))
        /\ pc' = "probeTts"
        /\ UNCHANGED outcome
     \/ /\ Throw("TTS failed")
        /\ log' = Append(log, Op("tts", 0, FALSE))
        /\ UNCHANGED <<ttsMode, tempFiles>>
  /\ UNCHANGED <<params, tempDir, outputDirExists, tempDirExists, finalVideo, captionFile, hashtagsFile>>
  /\ UNCHANGED <<ttsDuration, musicPath, clips, playlist, overlays, durations>>
  /\ UNCHANGED units

\* const ttsDuration = await getAudioDuration(ttsAudioPath)
ProbeNarration ==
  /\ pc = "probeTts"
  /\ \/ /\ IF ttsMode = "silence"
             THEN ttsDuration' = EstimatedDuration(Len(script))
             ELSE \E d \in 0..MaxD : ttsDuration' = d
        /\ log' = Append(log, Op("probeTts", 0, TRUE))
        /\ pc' = "music"
        /\ UNCHANGED outcome
     \/ /\ Throw("ffprobe failed")
        /\ log' = Append(log, Op("probeTts", 0, FALSE))
        /\ UNCHANGED ttsDuration
  /\ UNCHANGED <<params, tempDir, disk, ttsMode, musicPath, clips, playlist, overlays, durations>>
  /\ UNCHANGED units

\* Step 2: musicPath = await getBackgroundMusic(tempDir)
GetBackgroundMusic ==
  /\ pc = "music"
  /\ \/ /\ musicPath' = "user"
        /\ UNCHANGED tempFiles
        /\ log' = Append(log, Op("music", 0, TRUE))
        /\ pc' = "normalize"
        /\ UNCHANGED outcome
     \/ /\ \E m \in {"download", "silence"} : musicPath' = m
        /\ tempFiles' = tempFiles \cup {<<"background-music.mp3", 0>>}
        /\ log' = Append(log, Op("music", 0, TRUE))
        /\ pc' = "normalize"
        /\ UNCHANGED outcome
     \/ /\ Throw("music failed")
        /\ log' = Append(log, Op("music", 0, FALSE))
        /\ UNCHANGED <<musicPath, tempFiles>>
  /\ UNCHANGED <<params, tempDir, outputDirExists, tempDirExists, finalVideo, captionFile, hashtagsFile>>
  /\ UNCHANGED <<narration, clips, playlist, overlays, durations>>
  /\ UNCHANGED units

\* Step 3: one iteration of the loop over assetPaths (image or video branch);
\* a rejected conversion is not caught inside the loop
NormalizeAsset ==
  /\ pc = "normalize"
  /\ i < Len(assetPaths)
  /\ IF Transcodable(assetPaths[i + 1])
       THEN /\ processedVideos' = Append(processedVideos, i)
            /\ tempFiles' = tempFiles \cup {<<"processed", i>>}
            /\ log' = Append(log, Op("normalize", i, TRUE))
            /\ i' = IF i + 1 < Len(assetPaths) THEN i + 1 ELSE 0
            /\ pc' = IF i + 1 < Len(assetPaths) THEN "normalize" ELSE "probeClips"
            /\ UNCHANGED outcome
       ELSE /\ Throw("ffmpeg failed: normalize")
            /\ log' = Append(log, Op("normalize", i, FALSE))
            /\ UNCHANGED <<processedVideos, tempFiles, i>>
  /\ UNCHANGED <<params, tempDir, outputDirExists, tempDirExists, finalVideo, captionFile, hashtagsFile>>
  /\ UNCHANGED <<narration, musicPath, clipDurations, totalVideoDuration, playlist, overlays, durations>>
  /\ UNCHANGED units

\* Step 4: one iteration of the loop adding up getVideoDuration(video)
ProbeClip ==
  /\ pc = "probeClips"
  /\ i < Len(processedVideos)
  /\ \/ /\ \E d \in ProbedDurations(assetPaths[processedVideos[i + 1] + 1]) :
             /\ clipDurations' = Append(clipDurations, d)
             /\ totalVideoDuration' = totalVideoDuration + d
        /\ log' = Append(log, Op("probeClip", i, TRUE))
        /\ i' = IF i + 1 < Len(processedVideos) THEN i + 1 ELSE 0
        /\ pc' = IF i + 1 < Len(processedVideos) THEN "probeClips" ELSE "buildList"
        /\ UNCHANGED outcome
     \/ /\ Throw("ffprobe failed")
        /\ log' = Append(log, Op("probeClip", i, FALSE))
        /\ UNCHANGED <<i, clipDurations, totalVideoDuration>>
  /\ UNCHANGED <<params, tempDir, disk, narration, musicPath, processedVideos, playlist, overlays, durations>>
  /\ UNCHANGED units

\* loops = Math.ceil(ttsDuration / totalVideoDuration) and the nested loop
\* filling concatLines, when loops is finite (NaN: the loop body never runs)
BuildConcatList ==
  /\ pc = "buildList"
  /\ ComputeLoops(ttsDuration, totalVideoDuration) # Infinity
  /\ loops' = ComputeLoops(ttsDuration, totalVideoDuration)
  /\ concatLines' = Repeat([k \in 1..Len(processedVideos) |-> k], loops')
  /\ pc' = "writeList"
  /\ UNCHANGED <<params, tempDir, disk, narration, musicPath, clips, overlays, durations, outcome, log>>
  /\ UNCHANGED units

\* the same loop when loops is Infinity: `i < loops` never becomes false
BuildConcatListForever ==
  /\ pc = "buildList"
  /\ ComputeLoops(ttsDuration, totalVideoDuration) = Infinity
  /\ loops' = Infinity
  /\ pc' = "looping"
  /\ UNCHANGED <<params, tempDir, disk, narration, musicPath, clips, concatLines, overlays, durations, outcome, log>>
  /\ UNCHANGED units

\* await fs.writeFile(concatListPath, concatLines.join('\n'))
WriteConcatList ==
  /\ pc = "writeList"
  /\ \/ /\ tempFiles' = tempFiles \cup {<<"concat-list.txt", 0>>}
        /\ pc' = "concat"
        /\ UNCHANGED outcome
     \/ /\ Throw("writeFile failed")
        /\ UNCHANGED tempFiles
  /\ UNCHANGED <<params, tempDir, outputDirExists, tempDirExists, finalVideo, captionFile, hashtagsFile>>
  /\ UNCHANGED <<narration, musicPath, clips, playlist, overlays, durations, log>>
  /\ UNCHANGED units

\* the concat demuxer with -c copy and -t ttsDuration
Concatenate ==
  /\ pc = "concat"
  /\ \/ /\ videoDuration' = Min(ttsDuration, RawDuration(concatLines, clipDurations))
        /\ tempFiles' = tempFiles \cup {<<"concatenated.mp4", 0>>}
        /\ log' = Append(log, Op("concat", 0, TRUE))
        /\ pc' = "overlay"
        /\ UNCHANGED outcome
     \/ /\ Throw("ffmpeg failed: concat")
        /\ log' = Append(log, Op("concat", 0, FALSE))
        /\ UNCHANGED <<videoDuration, tempFiles>>
  /\ UNCHANGED <<params, tempDir, outputDirExists, tempDirExists, finalVideo, captionFile, hashtagsFile>>
  /\ UNCHANGED <<narration, musicPath, clips, playlist, overlays, audioDuration, finalDuration, musicDuration>>
  /\ UNCHANGED units

\* the drawtext windows of Step 5, as numerators over den = sentences.length + 2
\* (timePerSentence = d / den)
\* the intro shown for 2.5 s whatever the slot width
IntroCue_NoMin(d, den) ==
  [kind |-> "intro", text |-> <<"FACELESS VIDEO">>, from |-> 0, to |-> IntroOutroCap * den]

IntroCue(d, den) ==
  [kind |-> "intro", text |-> <<"FACELESS VIDEO">>, from |-> 0, to |-> Min(IntroOutroCap * den, d)]

\* sentence windows starting at slot 0 instead of slot 1
SentenceCue_ZeroBased(sentences, k, d) ==
  [kind |-> "sentence", text |-> sentences[k + 1], from |-> d * k, to |-> d * (k + 1)]

SentenceCue(sentences, k, d) ==
  [kind |-> "sentence", text |-> sentences[k + 1], from |-> d * (k + 1), to |-> d * (k + 2)]

OutroCue(d, den) ==
  [kind |-> "outro", text |-> <<"FOLLOW FOR MORE">>, from |-> d * den - Min(IntroOutroCap * den, d), to |-> d * den]

BuildTextFilters(sentences, d) ==
  <<IntroCue(d, Len(sentences) + 2)>>
    \o [k \in 1..Len(sentences) |-> SentenceCue(sentences, k - 1, d)]
    \o <<OutroCue(d, Len(sentences) + 2)>>

\* Step 5: the cue windows, then the drawtext burn-in
BurnOverlays ==
  /\ pc = "overlay"
  /\ slotDen' = Len(splitScriptIntoSentences(script)) + 2
  /\ textFilters' = BuildTextFilters(splitScriptIntoSentences(script), ttsDuration)
  /\ \/ /\ tempFiles' = tempFiles \cup {<<"video-with-text.mp4", 0>>}
        /\ log' = Append(log, Op("overlay", 0, TRUE))
        /\ pc' = "mix"
        /\ UNCHANGED outcome
     \/ /\ Throw("ffmpeg failed: drawtext")
        /\ log' = Append(log, Op("overlay", 0, FALSE))
        /\ UNCHANGED tempFiles
  /\ UNCHANGED <<params, tempDir, outputDirExists, tempDirExists, finalVideo, captionFile, hashtagsFile>>
  /\ UNCHANGED <<narration, musicPath, clips, playlist, durations>>
  /\ UNCHANGED units

\* length of the music file the mix reads
MusicDurations(m) == IF m = "silence" THEN {SilentMusicDur} ELSE 1..MaxMusicDur

\* [music]atrim=0:ttsDuration
ATrim(len, d) == Min(len, d)

\* amix=inputs=2:duration=shortest
AMix_Shortest(first, second) == Min(first, second)

\* amix=inputs=2:duration=first
AMix(first, second) == first

\* -shortest
Shortest(v, a) == Min(v, a)

\* Step 6: mix narration and music, mux with the captioned video into
\* finalVideoPath; a failed run of the engine may leave a partial file there
MixAudio ==
  /\ pc = "mix"
  /\ \/ /\ \E m \in MusicDurations(musicPath) :
             /\ musicDuration' = m
             /\ audioDuration' = AMix(ttsDuration, ATrim(m, ttsDuration))
        /\ finalDuration' = Shortest(videoDuration, audioDuration')
        /\ finalVideo' = "complete"
        /\ log' = Append(log, Op("mix", 0, TRUE))
        /\ pc' = "caption"
        /\ UNCHANGED outcome
     \/ /\ Throw("ffmpeg failed: mix")
        /\ finalVideo' \in {"absent", "partial"}
        /\ log' = Append(log, Op("mix", 0, FALSE))
        /\ UNCHANGED <<audioDuration, finalDuration, musicDuration>>
  /\ UNCHANGED <<params, tempDir, outputDirExists, tempDirExists, tempFiles, captionFile, hashtagsFile>>
  /\ UNCHANGED <<narration, musicPath, clips, playlist, overlays, videoDuration>>
  /\ UNCHANGED units

\* Step 7: await fs.writeFile(captionPath, caption)
WriteCaption ==
  /\ pc = "caption"
  /\ \/ /\ captionFile' = TRUE
        /\ log' = Append(log, Op("caption", 0, TRUE))
        /\ pc' = "hashtags"
        /\ UNCHANGED outcome
     \/ /\ Throw("writeFile failed")
        /\ log' = Append(log, Op("caption", 0, FALSE))
        /\ UNCHANGED captionFile
  /\ UNCHANGED <<params, tempDir, outputDirExists, tempDirExists, tempFiles, finalVideo, hashtagsFile>>
  /\ UNCHANGED <<narration, musicPath, clips, playlist, overlays, durations>>
  /\ UNCHANGED units

\* Step 7: await fs.writeFile(hashtagsPath, hashtags)
WriteHashtags ==
  /\ pc = "hashtags"
  /\ \/ /\ hashtagsFile' = TRUE
        /\ log' = Append(log, Op("hashtags", 0, TRUE))
        /\ pc' = "cleanup"
        /\ UNCHANGED outcome
     \/ /\ Throw("writeFile failed")
        /\ log' = Append(log, Op("hashtags", 0, FALSE))
        /\ UNCHANGED hashtagsFile
  /\ UNCHANGED <<params, tempDir, outputDirExists, tempDirExists, tempFiles, finalVideo, captionFile>>
  /\ UNCHANGED <<narration, musicPath, clips, playlist, overlays, durations>>
  /\ UNCHANGED units

\* Step 8: await fs.remove(tempDir); return finalVideoPath
Cleanup ==
  /\ pc = "cleanup"
  /\ \/ /\ tempDirExists' = FALSE
        /\ tempFiles' = {}
        /\ log' = Append(log, Op("remove", 0, TRUE))
        /\ result' = "returned"
        /\ pc' = "settled"
        /\ UNCHANGED <<raised, error>>
     \/ /\ Throw("remove failed")
        /\ log' = Append(log, Op("remove", 0, FALSE))
        /\ UNCHANGED <<tempDirExists, tempFiles>>
  /\ UNCHANGED <<params, tempDir, outputDirExists, finalVideo, captionFile, hashtagsFile>>
  /\ UNCHANGED <<narration, musicPath, clips, playlist, overlays, durations>>
  /\ UNCHANGED units

\* a catch block that rethrows without removing the workspace
Catch_NoRemove ==
  /\ pc = "catch"
  /\ error' = raised
  /\ result' = "thrown"
  /\ pc' = "settled"
  /\ UNCHANGED <<params, tempDir, disk, narration, musicPath, clips, playlist, overlays, durations, raised, log>>
  /\ UNCHANGED units

\* the catch block: remove the workspace if it exists, then rethrow; a
\* rejected fs.remove replaces the error being rethrown
Catch ==
  /\ pc = "catch"
  /\ IF tempDir # "" /\ tempDirExists
       THEN \/ /\ tempDirExists' = FALSE
               /\ tempFiles' = {}
               /\ log' = Append(log, Op("remove", 1, TRUE))
               /\ error' = raised
            \/ /\ UNCHANGED <<tempDirExists, tempFiles>>
               /\ log' = Append(log, Op("remove", 1, FALSE))
               /\ error' = "remove failed"
       ELSE /\ UNCHANGED <<tempDirExists, tempFiles, log>>
            /\ error' = raised
  /\ result' = "thrown"
  /\ pc' = "settled"
  /\ UNCHANGED <<params, tempDir, outputDirExists, finalVideo, captionFile, hashtagsFile>>
  /\ UNCHANGED <<narration, musicPath, clips, playlist, overlays, durations, raised>>
  /\ UNCHANGED units

Next ==
  \/ Validate
  \/ EnsureOutputDir
  \/ EnsureTempDir
  \/ GenerateTTS
  \/ ProbeNarration
  \/ GetBackgroundMusic
  \/ NormalizeAsset
  \/ ProbeClip
  \/ BuildConcatList
  \/ BuildConcatListForever
  \/ WriteConcatList
  \/ Concatenate
  \/ BurnOverlays
  \/ MixAudio
  \/ WriteCaption
  \/ WriteHashtags
  \/ Cleanup
  \/ Catch

Spec == Init /\ [][Next]_vars

\* ------------------------------------------- the caption scheduling alone
\* createShort about to run Step 5, for any valid script and any measured
\* narration duration: a run with the single asset clip.mp4 (1 tick long)
\* whose steps 1 to 4 succeeded
InitCues ==
  /\ script \in {s \in SeqsUpTo(Chars, MaxCueScriptLen) : Trim(s) # <<>>}
  /\ assetPaths = <<"clip.mp4">>
  /\ pc = "overlay"
  /\ tempDir = "temp"
  /\ outputDirExists = TRUE
  /\ tempDirExists = TRUE
  /\ tempFiles = {<<"tts-narration.mp3", 0>>, <<"processed", 0>>, <<"concat-list.txt", 0>>, <<"concatenated.mp4", 0>>}
  /\ finalVideo = "absent"
  /\ captionFile = FALSE
  /\ hashtagsFile = FALSE
  /\ ttsMode = "speech"
  /\ ttsDuration \in 0..MaxCueD
  /\ musicPath = "user"
  /\ i = 0
  /\ processedVideos = <<0>>
  /\ clipDurations = <<1>>
  /\ totalVideoDuration = 1
  /\ loops = ComputeLoops(ttsDuration, 1)
  /\ concatLines = Repeat(<<1>>, loops)
  /\ slotDen = 1
  /\ textFilters = <<>>
  /\ videoDuration = ttsDuration
  /\ audioDuration = 0
  /\ finalDuration = 0
  /\ musicDuration = 0
  /\ raised = "none"
  /\ result = "pending"
  /\ error = "none"
  /\ log = <<Op("tts", 0, TRUE), Op("probeTts", 0, TRUE), Op("music", 0, TRUE),
             Op("normalize", 0, TRUE), Op("probeClip", 0, TRUE), Op("concat", 0, TRUE)>>
  /\ UnitsIdle

NextCues == BurnOverlays

SpecCues == InitCues /\ [][NextCues]_vars

\* ------------------------------------------------ generateTTSAudio alone
\* createShort not called: its state stays as constructed
RunUnstarted ==
  /\ pc = "idle"
  /\ tempDir = ""
  /\ outputDirExists = FALSE
  /\ tempDirExists = FALSE
  /\ tempFiles = {}
  /\ finalVideo = "absent"
  /\ captionFile = FALSE
  /\ hashtagsFile = FALSE
  /\ ttsMode = "none"
  /\ ttsDuration = 0
  /\ musicPath = "none"
  /\ i = 0
  /\ processedVideos = <<>>
  /\ clipDurations = <<>>
  /\ totalVideoDuration = 0
  /\ loops = 0
  /\ concatLines = <<>>
  /\ slotDen = 1
  /\ textFilters = <<>>
  /\ videoDuration = 0
  /\ audioDuration = 0
  /\ finalDuration = 0
  /\ musicDuration = 0
  /\ raised = "none"
  /\ result = "pending"
  /\ error = "none"
  /\ log = <<>>

RunIdle == script = <<>> /\ assetPaths = <<>> /\ RunUnstarted

\* a text is a sequence of runs: n copies of an ordinary character ("a"), of
\* a blank (" ") or of a sentence terminator (".", standing for . ! ?)
Runs ==
  {[c |-> "a", n |-> 1], [c |-> "a", n |-> 100], [c |-> "a", n |-> 200],
   [c |-> " ", n |-> 1], [c |-> ".", n |-> 1], [c |-> ".", n |-> 200]}

RECURSIVE TextLength(_)
\* text.length
TextLength(t) == IF t = <<>> THEN 0 ELSE Head(t).n + TextLength(Tail(t))

\* [.!?]
IsTerminator(r) == r.c = "."

EndsSentence(t) == t # <<>> /\ IsTerminator(t[Len(t)])

RECURSIVE MatchSentences(_, _)
\* text.match(/[^.!?]+[.!?]+/g): every run of non-terminators that is
\* followed by terminators, with those terminators; terminators at the very
\* start and a tail without terminator match nothing
MatchSentences(rest, cur) ==
  IF rest = <<>> THEN (IF EndsSentence(cur) THEN <<cur>> ELSE <<>>)
  ELSE IF IsTerminator(Head(rest))
    THEN IF cur = <<>> THEN MatchSentences(Tail(rest), <<>>)
         ELSE MatchSentences(Tail(rest), Append(cur, Head(rest)))
  ELSE IF EndsSentence(cur)
    THEN <<cur>> \o MatchSentences(Tail(rest), <<Head(rest)>>)
  ELSE MatchSentences(Tail(rest), Append(cur, Head(rest)))

RECURSIVE TrimRunsLeft(_)
TrimRunsLeft(t) == IF t # <<>> /\ Head(t).c = " " THEN TrimRunsLeft(Tail(t)) ELSE t

RECURSIVE TrimRunsRight(_)
TrimRunsRight(t) ==
  IF t # <<>> /\ t[Len(t)].c = " " THEN TrimRunsRight(SubSeq(t, 1, Len(t) - 1)) ELSE t

\* currentChunk.trim()
TrimRuns(t) == TrimRunsRight(TrimRunsLeft(t))

\* chunks.push(currentChunk.trim()) under if (currentChunk)
PushChunk(currentChunk) == IF currentChunk # <<>> THEN <<TrimRuns(currentChunk)>> ELSE <<>>

RECURSIVE PackChunks(_, _)
\* the loop over sentences and the push after it
PackChunks(sentences, currentChunk) ==
  IF sentences = <<>> THEN PushChunk(currentChunk)
  ELSE IF TextLength(currentChunk \o Head(sentences)) <= MAX_LENGTH
    THEN PackChunks(Tail(sentences), currentChunk \o Head(sentences))
  ELSE PushChunk(currentChunk) \o PackChunks(Tail(sentences), Head(sentences))

\* a splitter that never splits
SplitText_Whole(t) == <<t>>

\* the chunks of a text
SplitText(t) ==
  IF TextLength(t) <= MAX_LENGTH THEN <<t>>
  ELSE PackChunks(IF MatchSentences(t, <<>>) = <<>> THEN <<t>> ELSE MatchSentences(t, <<>>), <<>>)

RECURSIVE SpokenLength(_)
\* the characters of a chunk that are spoken: neither blanks nor terminators
SpokenLength(t) ==
  IF t = <<>> THEN 0
  ELSE (IF Head(t).c = "a" THEN Head(t).n ELSE 0) + SpokenLength(Tail(t))

\* length of the audio the service returns for a chunk, in fifteenths of a
\* second: the speech rate the code itself assumes, 450 characters a minute,
\* for the spoken characters
SpeechDuration(chunk) == 2 * SpokenLength(chunk)

\* the estimate without its upper cap
EstimatedFifteenths_NoCap(len) == Max(15 * 10, 2 * len)

\* Math.max(10, Math.min(45, text.length / 450 * 60)), in fifteenths of a second
EstimatedFifteenths(len) == Max(15 * 10, Min(15 * 45, 2 * len))

\* a concatenation as long as its first file only
SumDurations_First(list, audio) == IF list = <<>> THEN 0 ELSE audio[Head(list) + 1]

RECURSIVE SumDurations(_, _)
\* what the concat demuxer with -c copy makes of the listed files
SumDurations(list, audio) ==
  IF list = <<>> THEN 0 ELSE audio[Head(list) + 1] + SumDurations(Tail(list), audio)

\* a rejected await inside the inner try block: control passes to the fallback
TtsError == ttsPc' = "fallback" /\ UNCHANGED <<outputAudio, ttsResult>>

\* lines 630-656: split the text into chunks
SplitIntoChunks ==
  /\ ttsPc = "split"
  /\ chunks' = SplitText(text)
  /\ ttsPc' = "chunk"
  /\ UNCHANGED <<text, chunkPaths, chunkAudio, outputAudio, ttsResult, estimatedDuration>>
  /\ UNCHANGED asideSynth

\* one turn of the loop over chunks: getAudioUrl, the download, the write
\* stream, each awaited; any of them may reject
SynthesizeChunk ==
  /\ ttsPc = "chunk"
  /\ Len(chunkPaths) < Len(chunks)
  /\ \/ /\ chunkPaths' = Append(chunkPaths, Len(chunkPaths))
        /\ chunkAudio' = Append(chunkAudio, SpeechDuration(chunks[Len(chunkPaths) + 1]))
        /\ UNCHANGED <<ttsPc, outputAudio, ttsResult>>
     \/ /\ TtsError
        /\ UNCHANGED <<chunkPaths, chunkAudio>>
  /\ UNCHANGED <<text, chunks, estimatedDuration>>
  /\ UNCHANGED asideSynth

\* one chunk: await fs.move(chunkPaths[0], outputPath); return outputPath
MoveSingleChunk ==
  /\ ttsPc = "chunk"
  /\ Len(chunkPaths) = Len(chunks)
  /\ Len(chunkPaths) = 1
  /\ \/ /\ outputAudio' = [via |-> "move", parts |-> <<chunkPaths[1]>>, duration |-> chunkAudio[1]]
        /\ ttsResult' = "returned"
        /\ ttsPc' = "done"
     \/ TtsError
  /\ UNCHANGED <<text, chunks, chunkPaths, chunkAudio, estimatedDuration>>
  /\ UNCHANGED asideSynth

\* several chunks: await fs.writeFile(concatListPath, concatContent)
WriteTtsConcatList ==
  /\ ttsPc = "chunk"
  /\ Len(chunkPaths) = Len(chunks)
  /\ Len(chunkPaths) # 1
  /\ \/ ttsPc' = "concat" /\ UNCHANGED <<outputAudio, ttsResult>>
     \/ TtsError
  /\ UNCHANGED <<text, chunks, chunkPaths, chunkAudio, estimatedDuration>>
  /\ UNCHANGED asideSynth

\* a concatenation that leaves out the first chunk
ConcatChunks_DropFirst ==
  /\ ttsPc = "concat"
  /\ \/ /\ outputAudio' = [via |-> "concat", parts |-> Tail(chunkPaths),
                            duration |-> SumDurations(Tail(chunkPaths), chunkAudio)]
        /\ ttsPc' = "removeChunks"
        /\ UNCHANGED ttsResult
     \/ TtsError
  /\ UNCHANGED <<text, chunks, chunkPaths, chunkAudio, estimatedDuration>>
  /\ UNCHANGED asideSynth

\* the concat demuxer over the chunk files in chunkPaths order
ConcatChunks ==
  /\ ttsPc = "concat"
  /\ \/ /\ outputAudio' = [via |-> "concat", parts |-> chunkPaths,
                            duration |-> SumDurations(chunkPaths, chunkAudio)]
        /\ ttsPc' = "removeChunks"
        /\ UNCHANGED ttsResult
     \/ TtsError
  /\ UNCHANGED <<text, chunks, chunkPaths, chunkAudio, estimatedDuration>>
  /\ UNCHANGED asideSynth

\* the 'end' handler: remove the chunk files and the list, then resolve; a
\* rejected fs.remove leaves the promise unsettled for ever
RemoveChunks ==
  /\ ttsPc = "removeChunks"
  /\ \/ ttsResult' = "returned" /\ ttsPc' = "done"
     \/ ttsPc' = "hung" /\ UNCHANGED ttsResult
  /\ UNCHANGED <<text, chunks, chunkPaths, chunkAudio, outputAudio, estimatedDuration>>
  /\ UNCHANGED asideSynth

\* the inner catch: a silent track of estimatedDuration seconds; a rejection
\* here reaches the outer catch, which rethrows it
SyntheticAudio ==
  /\ ttsPc = "fallback"
  /\ estimatedDuration' = EstimatedFifteenths(TextLength(text))
  /\ \/ /\ outputAudio' = [via |-> "lavfi", parts |-> <<>>, duration |-> estimatedDuration']
        /\ ttsResult' = "returned"
     \/ /\ ttsResult' = "thrown"
        /\ UNCHANGED outputAudio
  /\ ttsPc' = "done"
  /\ UNCHANGED <<text, chunks, chunkPaths, chunkAudio>>
  /\ UNCHANGED asideSynth

InitTTS ==
  /\ RunIdle
  /\ text \in {t \in SeqsUpTo(Runs, MaxRuns) : TrimRuns(t) # <<>>}
  /\ chunks = <<>>
  /\ chunkPaths = <<>>
  /\ chunkAudio = <<>>
  /\ ttsPc = "split"
  /\ outputAudio = NoAudio
  /\ ttsResult = "pending"
  /\ estimatedDuration = 0
  /\ MusicIdle
  /\ RaceIdle
  /\ FlowIdle
  /\ BatchIdle
  /\ OverlayIdle
  /\ SweepIdle
  /\ RetryIdle
  /\ FetchIdle
  /\ JoinerIdle
  /\ LegacyIdle
  /\ SchedIdle
  /\ ParserIdle

NextTTS ==
  \/ SplitIntoChunks
  \/ SynthesizeChunk
  \/ MoveSingleChunk
  \/ WriteTtsConcatList
  \/ ConcatChunks
  \/ RemoveChunks
  \/ SyntheticAudio

SpecTTS == InitTTS /\ [][NextTTS]_vars

\* ---------------------------------------------- getBackgroundMusic alone
\* what the music folder may hold
MusicFolderPool ==
  {[stem |-> "a", ext |-> "mp3"], [stem |-> "b", ext |-> "MP3"],
   [stem |-> "c", ext |-> "mp3"], [stem |-> "notes", ext |-> "txt"]}

\* directory listings: no name twice
Listings(n) == {l \in SeqsUpTo(MusicFolderPool, n) : \A a, b \in 1..Len(l) : a # b => l[a] # l[b]}

\* String.prototype.toLowerCase on an extension
ToLowerCase(e) == IF e = "MP3" THEN "mp3" ELSE e

\* f.toLowerCase().endsWith('.mp3')
IsMp3(f) == ToLowerCase(f.ext) = "mp3"

\* files.find(...): the index of the first match, 0 when there is none
FindMp3(files) ==
  IF \E k \in 1..Len(files) : IsMp3(files[k])
    THEN CHOOSE k \in 1..Len(files) : IsMp3(files[k]) /\ \A j \in 1..(k - 1) : ~IsMp3(files[j])
    ELSE 0

\* path.join(tempDir, 'background-music.mp3')
TempMusicPath == [dir |-> "temp", stem |-> "background-music", ext |-> "mp3"]

\* lines 563-574: look for a user-provided .mp3 in music/
CheckUserMusic ==
  /\ musicPc = "check"
  /\ IF musicDirExists
       THEN \/ /\ musicLog' = Append(musicLog, Op("readdir", 0, TRUE))
               /\ IF FindMp3(musicFiles) # 0
                    THEN /\ musicReturn' = [dir |-> "music", stem |-> musicFiles[FindMp3(musicFiles)].stem,
                                            ext |-> musicFiles[FindMp3(musicFiles)].ext]
                         /\ musicResult' = "returned"
                         /\ musicPc' = "done"
                    ELSE /\ musicPc' = "download"
                         /\ UNCHANGED <<musicReturn, musicResult>>
            \/ /\ musicLog' = Append(musicLog, Op("readdir", 0, FALSE))
               /\ musicResult' = "thrown"
               /\ musicPc' = "done"
               /\ UNCHANGED musicReturn
       ELSE /\ musicPc' = "download"
            /\ UNCHANGED <<musicLog, musicReturn, musicResult>>
  /\ UNCHANGED <<musicDirExists, musicFiles>>
  /\ UNCHANGED asideMusic

\* a download whose failure is rethrown
DownloadDefaultTrack_Rethrow ==
  /\ musicPc = "download"
  /\ \/ /\ musicLog' = Append(musicLog, Op("download", 0, TRUE))
        /\ musicReturn' = TempMusicPath
        /\ musicResult' = "returned"
        /\ musicPc' = "done"
     \/ /\ musicLog' = Append(musicLog, Op("download", 0, FALSE))
        /\ musicResult' = "thrown"
        /\ musicPc' = "done"
        /\ UNCHANGED musicReturn
  /\ UNCHANGED <<musicDirExists, musicFiles>>
  /\ UNCHANGED asideMusic

\* lines 579-584: await downloadMusic(DEFAULT_MUSIC_URLS[0], musicPath)
DownloadDefaultTrack ==
  /\ musicPc = "download"
  /\ \/ /\ musicLog' = Append(musicLog, Op("download", 0, TRUE))
        /\ musicReturn' = TempMusicPath
        /\ musicResult' = "returned"
        /\ musicPc' = "done"
     \/ /\ musicLog' = Append(musicLog, Op("download", 0, FALSE))
        /\ musicPc' = "placeholder"
        /\ UNCHANGED <<musicReturn, musicResult>>
  /\ UNCHANGED <<musicDirExists, musicFiles>>
  /\ UNCHANGED asideMusic

\* lines 584-609: 60 s of silence in place of the track; a rejection here
\* reaches the outer catch, which rethrows it
SyntheticMusic ==
  /\ musicPc = "placeholder"
  /\ \/ /\ musicLog' = Append(musicLog, Op("placeholder", 0, TRUE))
        /\ musicReturn' = TempMusicPath
        /\ musicResult' = "returned"
     \/ /\ musicLog' = Append(musicLog, Op("placeholder", 0, FALSE))
        /\ musicResult' = "thrown"
        /\ UNCHANGED musicReturn
  /\ musicPc' = "done"
  /\ UNCHANGED <<musicDirExists, musicFiles>>
  /\ UNCHANGED asideMusic

InitMusic ==
  /\ RunIdle
  /\ SynthIdle
  /\ RaceIdle
  /\ FlowIdle
  /\ musicDirExists \in BOOLEAN
  /\ musicFiles \in (IF musicDirExists THEN Listings(MaxMusicFiles) ELSE {<<>>})
  /\ musicPc = "check"
  /\ musicLog = <<>>
  /\ musicReturn = NoPath
  /\ musicResult = "pending"
  /\ BatchIdle
  /\ OverlayIdle
  /\ SweepIdle
  /\ RetryIdle
  /\ FetchIdle
  /\ JoinerIdle
  /\ LegacyIdle
  /\ SchedIdle
  /\ ParserIdle

NextMusic ==
  \/ CheckUserMusic
  \/ DownloadDefaultTrack
  \/ SyntheticMusic

SpecMusic == InitMusic /\ [][NextMusic]_vars

\* ------------------------------------------- createShort runs side by side
\* now.toISOString() cut at the '.': the wall clock in whole seconds
Timestamp(now) == now \div TicksPerSecond

\* path.join(outputDir, `temp-${timestamp}`), outputDir being the one
\* directory every caller's outputPath lies in
TempDirAt(now) == <<"output", "temp", Timestamp(now)>>

InProgress(j) == jobPc[j] \in {"working", "cleanup", "catch"}

\* time passes
TickClock ==
  /\ clock < MaxClock
  /\ clock' = clock + 1
  /\ UNCHANGED <<jobPc, jobTempDir, workspaces, intermediates>>
  /\ UNCHANGED asideRace

\* lines 811-823: name the workspace after the current second, create it
StartShort(j) ==
  /\ jobPc[j] = "idle"
  /\ jobTempDir' = [jobTempDir EXCEPT ![j] = TempDirAt(clock)]
  /\ \/ /\ workspaces' = workspaces \cup {TempDirAt(clock)}
        /\ jobPc' = [jobPc EXCEPT ![j] = "working"]
     \/ /\ jobPc' = [jobPc EXCEPT ![j] = "catch"]
        /\ UNCHANGED workspaces
  /\ UNCHANGED <<clock, intermediates>>
  /\ UNCHANGED asideRace

\* steps 1 to 7: the run writes its intermediates into tempDir, which fails
\* once the directory is gone
WriteIntermediates(j) ==
  /\ jobPc[j] = "working"
  /\ IF jobTempDir[j] \in workspaces
       THEN \/ /\ intermediates' = intermediates \cup {<<jobTempDir[j], j>>}
               /\ jobPc' = [jobPc EXCEPT ![j] = "cleanup"]
            \/ /\ jobPc' = [jobPc EXCEPT ![j] = "catch"]
               /\ UNCHANGED intermediates
       ELSE /\ jobPc' = [jobPc EXCEPT ![j] = "catch"]
            /\ UNCHANGED intermediates
  /\ UNCHANGED <<clock, jobTempDir, workspaces>>
  /\ UNCHANGED asideRace

\* step 8 and the catch block: fs.remove(tempDir) with all it holds
RemoveWorkspace(j) ==
  /\ jobPc[j] \in {"cleanup", "catch"}
  /\ \/ /\ workspaces' = workspaces \ {jobTempDir[j]}
        /\ intermediates' = {f \in intermediates : f[1] # jobTempDir[j]}
     \/ UNCHANGED <<workspaces, intermediates>>
  /\ jobPc' = [jobPc EXCEPT ![j] = "settled"]
  /\ UNCHANGED <<clock, jobTempDir>>
  /\ UNCHANGED asideRace

InitRace ==
  /\ RunIdle
  /\ SynthIdle
  /\ MusicIdle
  /\ RaceIdle
  /\ FlowIdle
  /\ BatchIdle
  /\ OverlayIdle
  /\ SweepIdle
  /\ RetryIdle
  /\ FetchIdle
  /\ JoinerIdle
  /\ LegacyIdle
  /\ SchedIdle
  /\ ParserIdle

NextRace ==
  \/ TickClock
  \/ \E j \in Jobs : StartShort(j)
  \/ \E j \in Jobs : WriteIntermediates(j)
  \/ \E j \in Jobs : RemoveWorkspace(j)

SpecRace == InitRace /\ [][NextRace]_vars

\* ------------------------------------- createShort's calls in flight
Call(name, idx) == <<name, idx>>

\* the awaited calls of the try block for n assets, in program order
CallSequence(n) ==
  [k \in 1..n |-> Call("pathExists", k - 1)]
    \o <<Call("ensureDir", 0), Call("ensureDir", 1), Call("tts", 0), Call("probeTts", 0), Call("music", 0)>>
    \o [k \in 1..n |-> Call("normalize", k - 1)]
    \o [k \in 1..n |-> Call("probeClip", k - 1)]
    \o <<Call("writeList", 0), Call("concat", 0), Call("overlay", 0), Call("mix", 0),
         Call("caption", 0), Call("hashtags", 0), Call("remove", 0)>>

\* the awaited calls of the catch block after the call c rejected: none while
\* tempDir is still '', pathExists alone while the workspace was not created
CatchSequence(c) ==
  IF c \in {Call("ensureDir", 0)} THEN <<>>
  ELSE IF c = Call("ensureDir", 1) THEN <<Call("pathExists", -1)>>
  ELSE <<Call("pathExists", -1), Call("remove", 1)>>

\* fs.pathExists resolves to a boolean, it does not reject
CanReject(c) == c[1] # "pathExists"

\* a call made without await: createShort runs on
MakeCall_NoAwait ==
  /\ flowMode \in {"try", "catch"}
  /\ awaiting = NoCall
  /\ todo # <<>>
  /\ inflight' = inflight \cup {Head(todo)}
  /\ todo' = Tail(todo)
  /\ events' = Append(events, [ev |-> "call", call |-> Head(todo)])
  /\ UNCHANGED <<flowMode, awaiting>>
  /\ UNCHANGED asideFlow

\* await <call>: the call starts and createShort is suspended on it
MakeCall ==
  /\ flowMode \in {"try", "catch"}
  /\ awaiting = NoCall
  /\ todo # <<>>
  /\ inflight' = inflight \cup {Head(todo)}
  /\ awaiting' = Head(todo)
  /\ todo' = Tail(todo)
  /\ events' = Append(events, [ev |-> "call", call |-> Head(todo)])
  /\ UNCHANGED flowMode
  /\ UNCHANGED asideFlow

\* what is ahead once the call c has settled
TodoAfter(c, ok) ==
  IF ok THEN todo
  ELSE IF flowMode = "try" THEN CatchSequence(c)
  ELSE <<>>

\* a call in flight resolves or rejects; createShort resumes if it awaits it,
\* and settles when nothing is ahead
SettleCall ==
  /\ \E c \in inflight, ok \in BOOLEAN :
       /\ ok \/ CanReject(c)
       /\ inflight' = inflight \ {c}
       /\ events' = Append(events, [ev |-> "settle", call |-> c])
       /\ IF awaiting = c
            THEN /\ awaiting' = NoCall
                 /\ todo' = TodoAfter(c, ok)
                 /\ flowMode' = IF todo' = <<>> THEN "settled"
                                ELSE IF ok THEN flowMode ELSE "catch"
            ELSE UNCHANGED <<awaiting, todo, flowMode>>
  /\ UNCHANGED asideFlow

\* paths: <<directory, name, index>>; the directory alone has name ""
AssetFile(k) == <<"assets", assetPaths[k + 1], 0>>

WorkFile(name, idx) == <<"temp", name, idx>>

Artifacts == {<<"output", "video", 0>>, <<"output", "caption", 0>>, <<"output", "hashtags", 0>>}

Effect(kind, path) == [kind |-> kind, path |-> path]

\* normalization that converts every asset in place
Effects_InPlace(c) ==
  IF c[1] = "normalize" THEN {Effect("read", AssetFile(c[2])), Effect("write", AssetFile(c[2]))}
  ELSE IF c[1] \in {"remove"} THEN {Effect("remove", WorkFile("", 0))}
  ELSE {}

\* what each awaited call reads, creates, writes and removes
Effects(c) ==
  IF c[1] = "pathExists" THEN
    {Effect("read", IF c[2] < 0 THEN WorkFile("", 0) ELSE AssetFile(c[2]))}
  ELSE IF c[1] = "ensureDir" THEN
    {Effect("mkdir", IF c[2] = 0 THEN <<"output", "", 0>> ELSE WorkFile("", 0))}
  ELSE IF c[1] = "tts" THEN
    {Effect("write", WorkFile("tts-chunk", 0)), Effect("remove", WorkFile("tts-chunk", 0)),
     Effect("write", WorkFile("tts-concat-list.txt", 0)), Effect("remove", WorkFile("tts-concat-list.txt", 0)),
     Effect("write", WorkFile("tts-narration.mp3", 0))}
  ELSE IF c[1] = "probeTts" THEN {Effect("read", WorkFile("tts-narration.mp3", 0))}
  ELSE IF c[1] = "music" THEN
    {Effect("read", <<"music", "", 0>>), Effect("write", WorkFile("background-music.mp3", 0))}
  ELSE IF c[1] = "normalize" THEN
    {Effect("read", AssetFile(c[2])), Effect("write", WorkFile("processed", c[2]))}
  ELSE IF c[1] = "probeClip" THEN {Effect("read", WorkFile("processed", c[2]))}
  ELSE IF c[1] = "writeList" THEN {Effect("write", WorkFile("concat-list.txt", 0))}
  ELSE IF c[1] = "concat" THEN
    {Effect("read", WorkFile("concat-list.txt", 0)), Effect("write", WorkFile("concatenated.mp4", 0))}
  ELSE IF c[1] = "overlay" THEN
    {Effect("read", WorkFile("concatenated.mp4", 0)), Effect("write", WorkFile("video-with-text.mp4", 0))}
  ELSE IF c[1] = "mix" THEN
    {Effect("read", WorkFile("video-with-text.mp4", 0)), Effect("read", WorkFile("tts-narration.mp3", 0)),
     Effect("read", <<"music", "user", 0>>), Effect("read", WorkFile("background-music.mp3", 0)),
     Effect("write", <<"output", "video", 0>>)}
  ELSE IF c[1] = "caption" THEN {Effect("write", <<"output", "caption", 0>>)}
  ELSE IF c[1] = "hashtags" THEN {Effect("write", <<"output", "hashtags", 0>>)}
  ELSE IF c[1] = "remove" THEN {Effect("remove", WorkFile("", 0))}
  ELSE {}

InitFlow ==
  /\ script = <<"a">>
  /\ assetPaths \in {l \in SeqsUpTo(AssetPool, MaxAssets) :
                       l # <<>> /\ \A k \in 1..Len(l) : pathExists(l[k])}
  /\ RunUnstarted
  /\ SynthIdle
  /\ MusicIdle
  /\ RaceIdle
  /\ todo = CallSequence(Len(assetPaths))
  /\ flowMode = "try"
  /\ awaiting = NoCall
  /\ inflight = {}
  /\ events = <<>>
  /\ BatchIdle
  /\ OverlayIdle
  /\ SweepIdle
  /\ RetryIdle
  /\ FetchIdle
  /\ JoinerIdle
  /\ LegacyIdle
  /\ SchedIdle
  /\ ParserIdle

NextFlow ==
  \/ MakeCall
  \/ SettleCall

SpecFlow == InitFlow /\ [][NextFlow]_vars

\* ----------------------------------------------------------------- claims
Settled == pc = "settled"

NumAssets == Len(assetPaths)

FailingAssets == {j \in 1..NumAssets : ~Transcodable(assetPaths[j])}

InvalidInput ==
  \/ Trim(script) = <<>>
  \/ assetPaths = <<>>
  \/ \E j \in 1..NumAssets : ~pathExists(assetPaths[j])

LastOp == IF log = <<>> THEN Op("none", 0, TRUE) ELSE log[Len(log)]

C2_PartialNormalizationTolerated ==
  /\ raised = "ffmpeg failed: normalize" => Cardinality(FailingAssets) = NumAssets
  /\ pc \in {"probeClips", "buildList", "writeList", "concat"} =>
       /\ Cardinality(FailingAssets) < NumAssets
       /\ Len(processedVideos) = NumAssets - Cardinality(FailingAssets)

\* C3: an empty or blank script, an empty asset list or a missing asset file
\* makes createShort reject, with the workspace never created and no
\* synthesis, probe, download or transcoding operation invoked.
C3_InvalidInputRejectedEarly ==
  InvalidInput =>
    /\ pc \in {"validate", "catch", "settled"}
    /\ tempDir = "" /\ ~tempDirExists /\ ~outputDirExists
    /\ tempFiles = {} /\ log = <<>>
    /\ pc # "validate" =>
         raised = (IF Trim(script) = <<>> THEN "Script cannot be empty"
                   ELSE IF assetPaths = <<>> THEN "At least one asset path is required"
                   ELSE "Asset file not found")
    /\ Settled => (result = "thrown" /\ error = raised)

C3_Witness ==
  /\ Settled
  /\ Trim(script) # <<>>
  /\ NumAssets = 2
  /\ pathExists(assetPaths[1]) /\ ~pathExists(assetPaths[2])
  /\ result = "thrown"
  /\ error = "Asset file not found"

\* C4: whenever createShort throws, no final video file of the run exists in
\* the output directory.
C4_NoFinalVideoWhenThrown ==
  result = "thrown" => finalVideo = "absent"

Rank(op) ==
  CASE op = "tts" -> 1
    [] op = "probeTts" -> 2
    [] op = "music" -> 3
    [] op = "normalize" -> 4
    [] op = "probeClip" -> 5
    [] op = "concat" -> 6
    [] op = "overlay" -> 7
    [] op = "mix" -> 8
    [] op = "caption" -> 9
    [] op = "hashtags" -> 10
    [] op = "remove" -> 11

\* C5: the external operations of a run are invoked in the order narration,
\* narration probe, music, normalization of every asset, composition (clip
\* probes, concat), overlays, mix, side-files; each one only after the one
\* before it completed; on the success path the workspace is removed only
\* once the final file is written.  The log only grows, so it is enough to
\* state the order for the operation invoked last.
C5_StagesInStrictOrder ==
  /\ log # <<>> =>
       LET b == Len(log) IN
       /\ \A a \in 1..(b - 1) :
            /\ Rank(log[a].op) <= Rank(log[b].op)
            /\ Rank(log[a].op) = Rank(log[b].op) =>
                 /\ log[a].op \in {"normalize", "probeClip", "remove"}
                 /\ log[b].idx = log[a].idx + (b - a)
            /\ log[b].op # "remove" => log[a].ok
       /\ Rank(log[b].op) \in 2..10 =>
            \E a \in 1..(b - 1) : log[a].ok /\ Rank(log[a].op) = Rank(log[b].op) - 1
       /\ Rank(log[b].op) = 1 => b = 1
       /\ Rank(log[b].op) \in 5..10 =>
            \A j \in 0..(NumAssets - 1) : \E a \in 1..(b - 1) : log[a] = Op("normalize", j, TRUE)
       /\ Rank(log[b].op) \in 6..10 =>
            \A j \in 0..(NumAssets - 1) : \E a \in 1..(b - 1) : log[a] = Op("probeClip", j, TRUE)
       /\ (log[b].op = "remove" /\ log[b].idx = 0) =>
            /\ finalVideo = "complete"
            /\ \E a \in 1..(b - 1) : log[a] = Op("hashtags", 0, TRUE)
  /\ result = "returned" => (finalVideo = "complete" /\ LastOp = Op("remove", 0, TRUE))

C5_Witness ==
  /\ result = "returned"
  /\ NumAssets = 2
  /\ Len(log) = 13
  /\ ~tempDirExists

FatalStageErrors == {"ffmpeg failed: concat", "ffmpeg failed: drawtext", "ffmpeg failed: mix"}

FailedStage(e) ==
  CASE e = "ffmpeg failed: concat" -> "concat"
    [] e = "ffmpeg failed: drawtext" -> "overlay"
    [] e = "ffmpeg failed: mix" -> "mix"

\* C6: when the concat, the overlay burn-in or the mix step fails, no later
\* stage is executed and createShort rejects with that step's own error.
C6_FatalErrorPropagatesUnchanged ==
  (Settled /\ raised \in FatalStageErrors) =>
    /\ result = "thrown"
    /\ error = raised
    /\ \A a \in 1..Len(log) : Rank(log[a].op) \in 1..10 => Rank(log[a].op) <= Rank(FailedStage(raised))
    /\ ~captionFile /\ ~hashtagsFile

\* C7: the final video of a successful run has exactly the measured narration
\* duration: the composed video, the mixed audio and the muxed file all last
\* ttsDuration.
C7_FinalDurationIsNarrationDuration ==
  result = "returned" =>
    /\ videoDuration = ttsDuration
    /\ audioDuration = ttsDuration
    /\ finalDuration = ttsDuration

C7_Witness ==
  /\ result = "returned"
  /\ Len(processedVideos) = 2
  /\ loops >= 2
  /\ ttsDuration > 0
  /\ loops * totalVideoDuration > ttsDuration
  /\ finalDuration = ttsDuration

ListBuilt == pc \in {"writeList", "concat", "overlay", "mix", "caption", "hashtags", "cleanup"}

\* C8: with n clips of total probed duration T > 0 the concat list has
\* L * n entries, L being the least integer with L * T >= D; it is the clip
\* sequence in input order repeated L times, and its raw duration is >= D.
C8_PlaylistCoversNarration ==
  (ListBuilt /\ totalVideoDuration > 0) =>
    LET n == Len(processedVideos)
        L == Len(concatLines) \div n
    IN /\ n = NumAssets
       /\ \A k \in 1..n : processedVideos[k] = k - 1
       /\ Len(concatLines) = L * n
       /\ L * totalVideoDuration >= ttsDuration
       /\ L > 0 => (L - 1) * totalVideoDuration < ttsDuration
       /\ \A j \in 1..Len(concatLines) : concatLines[j] = ((j - 1) % n) + 1
       /\ RawDuration(concatLines, clipDurations) >= ttsDuration

C8_Witness ==
  /\ pc = "writeList"
  /\ ttsDuration = 3
  /\ clipDurations = <<1, 1>>
  /\ loops = 2
  /\ concatLines = <<1, 2, 1, 2>>

CuesBuilt == textFilters # <<>>

RECURSIVE SumWidths(_)
SumWidths(cues) ==
  IF cues = <<>> THEN 0 ELSE (Head(cues).to - Head(cues).from) + SumWidths(Tail(cues))

\* C9 (as claimed): the S+2 cue windows are contiguous from 0 to D, do not
\* overlap, and their widths add up to D.
C9_CuesPartitionTimeline ==
  CuesBuilt =>
    /\ textFilters[1].from = 0
    /\ \A j \in 1..(Len(textFilters) - 1) : textFilters[j].to = textFilters[j + 1].from
    /\ textFilters[Len(textFilters)].to = ttsDuration * slotDen
    /\ SumWidths(textFilters) = ttsDuration * slotDen

\* C9 (amended): the S+2 cue windows lie in [0, D] in time order and overlap
\* at most in an end point; the S sentence windows are contiguous and cover
\* [slot, D - slot]; the windows partition [0, D] exactly when
\* slot <= 2.5 s, and otherwise their widths add up to
\* D - 2 * (slot - 2.5 s) < D: the intro ends before the next window starts
\* and the outro starts after the window before it has ended.
C9_CuesDisjointWithCappedEnds ==
  CuesBuilt =>
    LET n == Len(textFilters)
        D == ttsDuration * slotDen
        slot == ttsDuration
        cap == IntroOutroCap * slotDen
    IN /\ n = slotDen
       /\ textFilters[1].from = 0
       /\ textFilters[n].to = D
       /\ \A j \in 1..n : 0 <= textFilters[j].from /\ textFilters[j].from <= textFilters[j].to /\ textFilters[j].to <= D
       /\ \A j \in 1..(n - 1) : textFilters[j].to <= textFilters[j + 1].from
       /\ \A j \in 2..(n - 2) : textFilters[j].to = textFilters[j + 1].from
       /\ n > 2 => (textFilters[2].from = slot /\ textFilters[n - 1].to = D - slot)
       /\ slot <= cap =>
            /\ \A j \in 1..(n - 1) : textFilters[j].to = textFilters[j + 1].from
            /\ SumWidths(textFilters) = D
       /\ slot > cap =>
            /\ textFilters[1].to < textFilters[2].from
            /\ textFilters[n - 1].to < textFilters[n].from
            /\ SumWidths(textFilters) = D - 2 * (slot - cap)

C9_Witness ==
  /\ CuesBuilt
  /\ Len(textFilters) = 3
  /\ ttsDuration > IntroOutroCap * slotDen
  /\ textFilters[1].to < textFilters[2].from
  /\ textFilters[2].to < textFilters[3].from

\* C10: with slot = D / (S + 2), sentence number j (1-based, in script order)
\* is shown from slot * j to slot * (j + 1), the intro from 0 to
\* min(2.5, slot), the outro from D - min(2.5, slot) to D, and every window
\* satisfies 0 <= start <= end <= D.  (Times are numerators over S + 2, so
\* slot is D, 2.5 s is IntroOutroCap * (S + 2) and D is D * (S + 2).)  The
\* witness is the scenario S = 3, D = 15 s: intro 0-2.5, sentences 3-6, 6-9,
\* 9-12, outro 12.5-15.
C10_CueWindowsFromSlots ==
  CuesBuilt =>
    LET sentences == splitScriptIntoSentences(script)
        S == Len(sentences)
        D == ttsDuration * (S + 2)
        slot == ttsDuration
        cap == IntroOutroCap * (S + 2)
        width == IF slot <= cap THEN slot ELSE cap
    IN /\ slotDen = S + 2
       /\ Len(textFilters) = S + 2
       /\ textFilters[1].kind = "intro"
       /\ textFilters[1].from = 0 /\ textFilters[1].to = width
       /\ \A j \in 1..S :
            /\ textFilters[j + 1].kind = "sentence"
            /\ textFilters[j + 1].text = sentences[j]
            /\ textFilters[j + 1].from = slot * j
            /\ textFilters[j + 1].to = slot * (j + 1)
       /\ textFilters[S + 2].kind = "outro"
       /\ textFilters[S + 2].from = D - width /\ textFilters[S + 2].to = D
       /\ \A j \in 1..(S + 2) :
            0 <= textFilters[j].from /\ textFilters[j].from <= textFilters[j].to /\ textFilters[j].to <= D

C10_Witness ==
  /\ pc = "mix"
  /\ script = <<"a", ".", "b", ".", "a">>
  /\ ttsDuration = 30
  /\ slotDen = 5
  /\ textFilters = << [kind |-> "intro", text |-> <<"FACELESS VIDEO">>, from |-> 0, to |-> 25],
                      [kind |-> "sentence", text |-> <<"a">>, from |-> 30, to |-> 60],
                      [kind |-> "sentence", text |-> <<"b">>, from |-> 60, to |-> 90],
                      [kind |-> "sentence", text |-> <<"a">>, from |-> 90, to |-> 120],
                      [kind |-> "outro", text |-> <<"FOLLOW FOR MORE">>, from |-> 125, to |-> 150] >>

\* ffmpeg's between(x, min, max): 1 when min <= x <= max, both ends included
between(t, lo, hi) == lo <= t /\ t <= hi

\* the cues whose enable expression holds at instant t (t over slotDen)
EnabledCues(t) ==
  {j \in 1..Len(textFilters) : between(t, textFilters[j].from, textFilters[j].to)}

\* C11: at no instant of [0, D] do the emitted enable expressions switch on
\* two cues at once, slot boundaries included.
C11_NoTwoCuesEnabledAtOnce ==
  CuesBuilt =>
    \A t \in 0..(ttsDuration * slotDen) : Cardinality(EnabledCues(t)) <= 1

\* C12: generateTTSAudio never throws: however the synthesis requests, the
\* downloads, the concatenation and the placeholder generation turn out, it
\* returns the output path.
C12_TtsNeverThrows == ttsPc \in {"done", "hung"} => ttsResult = "returned"

SpeechMade == outputAudio.via \in {"move", "concat"}

Prefixes(t) == {SubSeq(t, 1, k) : k \in 0..Len(t)}

\* C13: the silent placeholder is requested for max(10, min(45, length/450*60))
\* seconds: always within [10 s, 45 s] and never shorter for a longer text
\* (here against every prefix of the text).
C13_PlaceholderDurationClamped ==
  outputAudio.via = "lavfi" =>
    /\ outputAudio.duration = estimatedDuration
    /\ 15 * 10 <= estimatedDuration /\ estimatedDuration <= 15 * 45
    /\ estimatedDuration =
         (IF 2 * TextLength(text) < 15 * 10 THEN 15 * 10
          ELSE IF 2 * TextLength(text) > 15 * 45 THEN 15 * 45
          ELSE 2 * TextLength(text))
    /\ \A p \in Prefixes(text) : EstimatedFifteenths(TextLength(p)) <= estimatedDuration

\* a 202-character text whose second chunk failed: 26.93 s of silence
C13_Witness ==
  /\ outputAudio.via = "lavfi"
  /\ ttsResult = "returned"
  /\ TextLength(text) = 202
  /\ Len(chunkPaths) = 1
  /\ estimatedDuration = 404

\* a terminator inside the chunk with text on both sides of it
HasInnerBreak(chunk) ==
  \E a, b, c \in 1..Len(chunk) :
    a < b /\ b < c /\ ~IsTerminator(chunk[a]) /\ IsTerminator(chunk[b]) /\ ~IsTerminator(chunk[c])

\* the chunk is a stretch of the text that begins where a sentence begins
\* and ends where a sentence ends, less the blanks at its two ends
IsWholeSentences(chunk) ==
  \E a, b \in 1..Len(text) :
    /\ a <= b
    /\ chunk = TrimRuns(SubSeq(text, a, b))
    /\ ~IsTerminator(text[a])
    /\ a = 1 \/ IsTerminator(text[a - 1])
    /\ IsTerminator(text[b])
    /\ b = Len(text) \/ ~IsTerminator(text[b + 1])

ChunksMade == ttsPc \notin {"idle", "split"}

\* C15: a chunk is longer than 200 characters only if it is one single
\* sentence; chunks begin and end where sentences do; a text of at most 200
\* characters is its own single chunk.
C15_ChunksRespectLimitAndSentences ==
  ChunksMade =>
    /\ \A k \in 1..Len(chunks) :
         TextLength(chunks[k]) > MAX_LENGTH => ~HasInnerBreak(chunks[k])
    /\ \A k \in 1..Len(chunks) :
         chunks[k] \in {text, TrimRuns(text)} \/ IsWholeSentences(chunks[k])
    /\ TextLength(text) <= MAX_LENGTH => chunks = <<text>>

\* a short first sentence, then a sentence that alone exceeds the limit
C15_Witness ==
  /\ ChunksMade
  /\ Len(chunks) = 2
  /\ TextLength(chunks[1]) <= MAX_LENGTH
  /\ TextLength(chunks[2]) > MAX_LENGTH

\* C16: chunks are synthesized in index order; a single chunk's audio file
\* becomes the output by a move, several are concatenated in their order.
C16_ChunksInOrderThenMoveOrConcat ==
  /\ Len(chunkPaths) <= Len(chunks)
  /\ \A k \in 1..Len(chunkPaths) :
       chunkPaths[k] = k - 1 /\ chunkAudio[k] = SpeechDuration(chunks[k])
  /\ outputAudio.via = "move" =>
       Len(chunks) = 1 /\ outputAudio.parts = <<0>>
  /\ outputAudio.via = "concat" =>
       /\ Len(chunks) > 1
       /\ outputAudio.parts = [k \in 1..Len(chunks) |-> k - 1]
  /\ (ttsResult = "returned" /\ Len(chunks) = 1) => outputAudio.via \in {"move", "lavfi"}

C16_Witness ==
  /\ ttsResult = "returned"
  /\ outputAudio.via = "concat"
  /\ Len(chunks) = 2
  /\ outputAudio.parts = <<0, 1>>

RECURSIVE SumSpeech(_)
SumSpeech(cs) == IF cs = <<>> THEN 0 ELSE SpeechDuration(Head(cs)) + SumSpeech(Tail(cs))

\* the narration the same service yields for text t
NarrationDuration(t) == SumSpeech(SplitText(t))

MusicOps == {musicLog[k].op : k \in 1..Len(musicLog)}

MusicFailures == {musicLog[k].op : k \in {j \in 1..Len(musicLog) : ~musicLog[j].ok}}

UserHasMp3 == musicDirExists /\ \E k \in 1..Len(musicFiles) : ToLowerCase(musicFiles[k].ext) = "mp3"

\* C14: the first .mp3 of music/ is used when there is one, and then nothing
\* is downloaded; otherwise the default track is downloaded; the silent
\* placeholder is made only after a failed download; a failed download alone
\* never makes getBackgroundMusic fail.
C14_MusicSourcePriority ==
  /\ (UserHasMp3 /\ musicResult = "returned") =>
       /\ musicReturn.dir = "music"
       /\ \E k \in 1..Len(musicFiles) :
            /\ musicReturn.stem = musicFiles[k].stem /\ musicReturn.ext = musicFiles[k].ext
            /\ \A j \in 1..(k - 1) : ToLowerCase(musicFiles[j].ext) # "mp3"
  /\ UserHasMp3 => MusicOps \subseteq {"readdir"}
  /\ (~UserHasMp3 /\ musicResult = "returned") =>
       /\ musicReturn = TempMusicPath
       /\ "download" \in MusicOps
  /\ "placeholder" \in MusicOps => "download" \in MusicFailures
  /\ Op("download", 0, TRUE) \in {musicLog[k] : k \in 1..Len(musicLog)} =>
       musicResult = "returned" /\ "placeholder" \notin MusicOps
  /\ musicResult = "thrown" => MusicFailures \cap {"readdir", "placeholder"} # {}

\* no .mp3 in the folder, the download failed, the placeholder was made
C14_Witness ==
  /\ musicDirExists
  /\ Len(musicFiles) = 1
  /\ ~UserHasMp3
  /\ musicLog = <<Op("readdir", 0, TRUE), Op("download", 0, FALSE), Op("placeholder", 0, TRUE)>>
  /\ musicResult = "returned"
  /\ musicReturn = TempMusicPath

Mixed == finalVideo = "complete"

\* C18 (as claimed): the mixed audio lasts as long as the shorter of its two
\* inputs, the narration and the music trimmed to the narration's duration.
C18_MixFollowsShorterInput ==
  Mixed => audioDuration = Min(ttsDuration, ATrim(musicDuration, ttsDuration))

\* C18 (amended): the mixed audio lasts as long as its first input, the
\* narration, also when the music is shorter.
C18_MixFollowsNarration ==
  Mixed =>
    /\ audioDuration = ttsDuration
    /\ musicDuration < ttsDuration => audioDuration > ATrim(musicDuration, ttsDuration)

\* a mix of a narration with a shorter music track
C18_Witness ==
  /\ Mixed
  /\ musicDuration = 1
  /\ ttsDuration = 3
  /\ audioDuration = 3

\* C19: two runs in progress never have the same workspace, and what a run
\* in progress wrote into its workspace is never removed by another run.
C19_WorkspacesNeverShared ==
  /\ \A j, k \in Jobs :
       (j # k /\ InProgress(j) /\ InProgress(k)) => jobTempDir[j] # jobTempDir[k]
  /\ \A k \in Jobs :
       jobPc[k] = "cleanup" => <<jobTempDir[k], k>> \in intermediates

Happened(e, c) == \E k \in 1..Len(events) : events[k] = [ev |-> e, call |-> c]

\* C20: at most one external operation of a run is in flight at a time, and
\* clip processed-<i> is started only after processed-<i-1> has finished, the
\* clips being started in input order.
C20_OneCallInFlight ==
  /\ Cardinality(inflight) <= 1
  /\ \A k \in 1..Len(events) :
       (events[k].ev = "call" /\ events[k].call[1] = "normalize") =>
         /\ events[k].call[2] = Cardinality({j \in 1..(k - 1) :
              events[j].ev = "call" /\ events[j].call[1] = "normalize"})
         /\ events[k].call[2] > 0 =>
              \E j \in 1..(k - 1) :
                events[j] = [ev |-> "settle", call |-> Call("normalize", events[k].call[2] - 1)]

\* the second clip being converted, the first one done
C20_Witness ==
  /\ Len(assetPaths) = 2
  /\ inflight = {Call("normalize", 1)}
  /\ awaiting = Call("normalize", 1)
  /\ Happened("settle", Call("normalize", 0))

\* every effect of the calls made so far
EffectsSoFar ==
  UNION {Effects(events[k].call) : k \in {j \in 1..Len(events) : events[j].ev = "call"}}

Inputs == {AssetFile(k - 1) : k \in 1..Len(assetPaths)} \cup {<<"music", "user", 0>>, <<"music", "", 0>>}

\* C21: whatever createShort writes or removes is inside its workspace or is
\* one of the three final artifacts; the input assets and the user's music
\* are only read, on the success path and on every failure path.
C21_InputsOnlyRead ==
  \A e \in EffectsSoFar :
    e.kind \in {"write", "remove"} =>
      /\ e.path[1] = "temp" \/ e.path \in Artifacts
      /\ e.path \notin Inputs

\* a run whose second conversion failed and whose catch block cleaned up
C21_Witness ==
  /\ flowMode = "settled"
  /\ Len(assetPaths) = 2
  /\ Happened("settle", Call("normalize", 0))
  /\ Happened("call", Call("normalize", 1))
  /\ Happened("call", Call("remove", 1))

\* ---------------------------------------------------------------------------
\* batch-multi: runBatchPipeline once per niche, with a pause between runs
\* ---------------------------------------------------------------------------

\* a niche as the words the user typed and what separates them
Niche(words, sep) == [words |-> words, sep |-> sep]

NichePool == {Niche(<<"cats">>, " "), Niche(<<"deep", "sea">>, " ")}

\* how long one runBatchPipeline call may take, in ticks
PipelineTicks == {0, 3}

\* how late a timer may fire, in ticks
TimerLateness == {0, 1}

\* the 5000 ms pause between two runs, in ticks
BatchDelay == 5 * TicksPerSecond

\* niche.replace(/\s+/g, '-')
Dashed(n) == [n EXCEPT !.sep = "-"]

\* one path segment: <niche>[_<epoch>][_<YYYYMMDD_HHmmss>]<suffix>
Segment(n, epoch, stamp, suffix) == [niche |-> n, epoch |-> epoch, stamp |-> stamp, suffix |-> suffix]

Dir(name) == Segment(Niche(<<name>>, ""), 0 - 1, 0 - 1, "")

\* path.join(process.cwd(), 'output', `${niche.replace(/\s+/g, '-')}_${timestamp}`), below the working directory
OutputFolder(n, now) == <<Dir("output"), Segment(Dashed(n), now, 0 - 1, "")>>

\* pathParts[pathParts.length - 1] || 'short'
Basename(p) == IF p = <<>> THEN Dir("short") ELSE p[Len(p)]

\* path.dirname(outputPath) || path.join(process.cwd(), 'output')
Dirname(p) == IF Len(p) <= 1 THEN <<Dir("output")>> ELSE SubSeq(p, 1, Len(p) - 1)

\* path.join(outputDir, `${niche}_${timestamp}<suffix>`)
ArtifactPath(outputPath, now, suffix) ==
  Dirname(outputPath) \o <<[Basename(outputPath) EXCEPT !.stamp = Timestamp(now), !.suffix = suffix]>>

ArtifactSuffixes == {".mp4", "_caption.txt", "_hashtags.txt"}

\* the three files a successful createShort leaves behind
ArtifactPaths(outputPath, now) == {ArtifactPath(outputPath, now, s) : s \in ArtifactSuffixes}

\* one runBatchPipeline call and what the loop does with its outcome
RunBatchPipeline_StopOnFailure ==
  /\ batchPc = "run"
  /\ batchIndex < Len(niches)
  /\ \E d \in PipelineTicks, ok \in BOOLEAN :
       LET niche == niches[batchIndex + 1]
           at == batchClock + d
           outputFolder == OutputFolder(niche, at)
           videoPath == ArtifactPath(outputFolder, at, ".mp4")
           last == batchIndex >= Len(niches) - 1
       IN  /\ batchClock' = at
           /\ attempts' = Append(attempts,
                [index |-> batchIndex, ok |-> ok, startedAt |-> batchClock, endedAt |-> at,
                 outputFolder |-> IF ok THEN outputFolder ELSE <<>>,
                 files |-> IF ok THEN ArtifactPaths(outputFolder, at) ELSE {}])
           /\ successful' = IF ok THEN Append(successful, [niche |-> niche, videoPath |-> videoPath]) ELSE successful
           /\ failed' = IF ok THEN failed ELSE Append(failed, [niche |-> niche, error |-> "pipeline failed"])
           /\ batchPc' = IF last \/ ~ok THEN "done" ELSE "delay"
           /\ batchIndex' = IF last \/ ~ok THEN Len(niches) ELSE batchIndex
  /\ UNCHANGED niches
  /\ UNCHANGED asideBatch

RunBatchPipeline_NoPauseOnFailure ==
  /\ batchPc = "run"
  /\ batchIndex < Len(niches)
  /\ \E d \in PipelineTicks, ok \in BOOLEAN :
       LET niche == niches[batchIndex + 1]
           at == batchClock + d
           outputFolder == OutputFolder(niche, at)
           videoPath == ArtifactPath(outputFolder, at, ".mp4")
           last == batchIndex >= Len(niches) - 1
       IN  /\ batchClock' = at
           /\ attempts' = Append(attempts,
                [index |-> batchIndex, ok |-> ok, startedAt |-> batchClock, endedAt |-> at,
                 outputFolder |-> IF ok THEN outputFolder ELSE <<>>,
                 files |-> IF ok THEN ArtifactPaths(outputFolder, at) ELSE {}])
           /\ successful' = IF ok THEN Append(successful, [niche |-> niche, videoPath |-> videoPath]) ELSE successful
           /\ failed' = IF ok THEN failed ELSE Append(failed, [niche |-> niche, error |-> "pipeline failed"])
           /\ batchPc' = IF last THEN "done" ELSE IF ok THEN "delay" ELSE "run"
           /\ batchIndex' = IF last \/ ~ok THEN batchIndex + 1 ELSE batchIndex
  /\ UNCHANGED niches
  /\ UNCHANGED asideBatch

RunBatchPipeline ==
  /\ batchPc = "run"
  /\ batchIndex < Len(niches)
  /\ \E d \in PipelineTicks, ok \in BOOLEAN :
       LET niche == niches[batchIndex + 1]
           at == batchClock + d
           outputFolder == OutputFolder(niche, at)
           videoPath == ArtifactPath(outputFolder, at, ".mp4")
           last == batchIndex >= Len(niches) - 1
       IN  /\ batchClock' = at
           /\ attempts' = Append(attempts,
                [index |-> batchIndex, ok |-> ok, startedAt |-> batchClock, endedAt |-> at,
                 outputFolder |-> IF ok THEN outputFolder ELSE <<>>,
                 files |-> IF ok THEN ArtifactPaths(outputFolder, at) ELSE {}])
           /\ successful' = IF ok THEN Append(successful, [niche |-> niche, videoPath |-> videoPath]) ELSE successful
           /\ failed' = IF ok THEN failed ELSE Append(failed, [niche |-> niche, error |-> "pipeline failed"])
           /\ batchPc' = IF last THEN "done" ELSE "delay"
           /\ batchIndex' = IF last THEN batchIndex + 1 ELSE batchIndex
  /\ UNCHANGED niches
  /\ UNCHANGED asideBatch

\* await new Promise(resolve => setTimeout(resolve, 5000)), then i++
WaitBeforeNext ==
  /\ batchPc = "delay"
  /\ \E late \in TimerLateness : batchClock' = batchClock + BatchDelay + late
  /\ batchIndex' = batchIndex + 1
  /\ batchPc' = "run"
  /\ UNCHANGED <<niches, attempts, successful, failed>>
  /\ UNCHANGED asideBatch

InitBatch ==
  /\ RunIdle
  /\ SynthIdle
  /\ MusicIdle
  /\ RaceIdle
  /\ FlowIdle
  /\ niches \in {n \in SeqsUpTo(NichePool, MaxNiches) : n # <<>>}
  /\ batchIndex = 0
  /\ batchPc = "run"
  /\ batchClock = 0
  /\ attempts = <<>>
  /\ successful = <<>>
  /\ failed = <<>>
  /\ OverlayIdle
  /\ SweepIdle
  /\ RetryIdle
  /\ FetchIdle
  /\ JoinerIdle
  /\ LegacyIdle
  /\ SchedIdle
  /\ ParserIdle

NextBatch ==
  \/ RunBatchPipeline
  \/ WaitBeforeNext

SpecBatch == InitBatch /\ [][NextBatch]_vars

\* the path the documentation gives an artifact of a run
DocumentedPath(n, epoch, now, suffix) ==
  OutputFolder(n, epoch) \o <<Segment(Dashed(n), 0 - 1, Timestamp(now), suffix)>>

\* C22: the final video, the caption file and the hashtags file of every
\* successful runBatchPipeline call lie inside that run's own folder
\* output/<niche>_<epoch>/ and are named <niche>_<YYYYMMDD_HHmmss> followed by
\* .mp4, _caption.txt and _hashtags.txt
C22_ArtifactsInsideRunFolder ==
  \A k \in 1..Len(attempts) :
    attempts[k].ok =>
      attempts[k].files =
        {DocumentedPath(niches[attempts[k].index + 1], attempts[k].endedAt, attempts[k].endedAt, s) : s \in ArtifactSuffixes}

\* the niches of the runs that ended one way, in the order they were made
NichesOf(ok) ==
  LET picked == SelectSeq(attempts, LAMBDA a : a.ok = ok)
  IN  [k \in 1..Len(picked) |-> niches[picked[k].index + 1]]

\* C24: batch-multi runs the niches one at a time in input order, each once,
\* whatever the earlier runs did; every run is recorded in exactly one of
\* results.successful and results.failed, and once the loop is over the two
\* lists together hold as many entries as there are niches
C24_EveryNicheOnceInOrder ==
  /\ \A k \in 1..Len(attempts) : attempts[k].index = k - 1
  /\ Len(attempts) <= Len(niches)
  /\ \A k \in 2..Len(attempts) : attempts[k].startedAt >= attempts[k - 1].endedAt
  /\ [k \in 1..Len(successful) |-> successful[k].niche] = NichesOf(TRUE)
  /\ [k \in 1..Len(failed) |-> failed[k].niche] = NichesOf(FALSE)
  /\ batchPc = "done" =>
       /\ Len(attempts) = Len(niches)
       /\ Len(successful) + Len(failed) = Len(niches)

C24_Witness ==
  /\ batchPc = "done"
  /\ Len(niches) = 3
  /\ niches[1] = niches[3]
  /\ ~attempts[1].ok
  /\ attempts[2].ok
  /\ attempts[3].ok

\* C25: in batch-multi every run but the first starts at least 5 seconds after
\* the run before it ended, whether that run succeeded or failed, and nothing
\* is waited for after the last run
C25_PauseBetweenRuns ==
  /\ \A k \in 2..Len(attempts) : attempts[k].startedAt >= attempts[k - 1].endedAt + BatchDelay
  /\ batchPc = "done" => batchClock = attempts[Len(attempts)].endedAt
  /\ batchPc = "delay" => Len(attempts) < Len(niches)

C25_Witness ==
  /\ batchPc = "done"
  /\ Len(attempts) = 3
  /\ ~attempts[1].ok
  /\ attempts[2].ok
  /\ attempts[2].startedAt = attempts[1].endedAt + BatchDelay

\* ---------------------------------------------------------------------------
\* a sentence embedded in a drawtext filter, and how the engine reads it back
\* ---------------------------------------------------------------------------

\* the characters a sentence is made of: a letter, and the ones the filter
\* syntax gives a meaning to
SentenceChars == {"a", "'", ":", "\\", ","}

\* "'\\\\\\''": a quote, three backslashes, two quotes
QuoteEscape == <<"'", "\\", "\\", "\\", "'", "'">>

\* sentences[i].replace(/'/g, "'\\\\\\''")
RECURSIVE ReplaceQuotes(_)
ReplaceQuotes(s) ==
  IF s = <<>> THEN <<>>
  ELSE (IF Head(s) = "'" THEN QuoteEscape ELSE <<Head(s)>>) \o ReplaceQuotes(Tail(s))

\* the enable expression of one sentence, its numbers left as written
EnableExpr == <<"between(t", ",", "1", ",", "2)">>

\* text='<sentence>':fontsize=72:...:enable='between(t,<start>,<end>)'
DrawtextArgs(s) ==
  <<"text=", "'">> \o s \o <<"'", ":", "fontsize=72", ":", "enable=", "'">> \o EnableExpr \o <<"'">>

\* the characters that end a filter's arguments in a filtergraph
GraphTerminators == {"[", "]", ",", ";"}

\* the character that ends one option inside a filter's arguments
OptionTerminators == {":"}

\* the engine's tokenizer: reads s from position at up to the first character
\* of term that is neither quoted nor escaped; a backslash outside quotes
\* makes the next character literal, and quotes are dropped
RECURSIVE GetToken(_, _, _, _, _)
GetToken(s, at, term, quoted, out) ==
  IF at > Len(s) THEN [out |-> out, next |-> at]
  ELSE IF quoted
       THEN IF s[at] = "'" THEN GetToken(s, at + 1, term, FALSE, out)
            ELSE GetToken(s, at + 1, term, TRUE, Append(out, s[at]))
  ELSE IF s[at] \in term THEN [out |-> out, next |-> at]
  ELSE IF s[at] = "\\" /\ at < Len(s) THEN GetToken(s, at + 2, term, FALSE, Append(out, s[at + 1]))
  ELSE IF s[at] = "'" THEN GetToken(s, at + 1, term, TRUE, out)
  ELSE GetToken(s, at + 1, term, FALSE, Append(out, s[at]))

\* the options of a filter: its arguments cut at every option terminator
RECURSIVE SplitOptions(_, _)
SplitOptions(s, at) ==
  IF at > Len(s) THEN <<>>
  ELSE LET tok == GetToken(s, at, OptionTerminators, FALSE, <<>>)
       IN  <<tok.out>> \o SplitOptions(s, tok.next + 1)

\* line 951
EscapeSentence ==
  /\ drawPc = "escape"
  /\ escaped' = ReplaceQuotes(sentence)
  /\ drawPc' = "embed"
  /\ UNCHANGED <<sentence, filterArgs, graphArgs, parsedWhole, options>>
  /\ UNCHANGED asideOverlay

\* lines 955-957
BuildDrawtext ==
  /\ drawPc = "embed"
  /\ filterArgs' = DrawtextArgs(escaped)
  /\ drawPc' = "graph"
  /\ UNCHANGED <<sentence, escaped, graphArgs, parsedWhole, options>>
  /\ UNCHANGED asideOverlay

\* the engine reads the filter's arguments out of the filtergraph
ParseFiltergraph ==
  /\ drawPc = "graph"
  /\ LET tok == GetToken(filterArgs, 1, GraphTerminators, FALSE, <<>>)
     IN  /\ graphArgs' = tok.out
         /\ parsedWhole' = (tok.next > Len(filterArgs))
  /\ drawPc' = "options"
  /\ UNCHANGED <<sentence, escaped, filterArgs, options>>
  /\ UNCHANGED asideOverlay

\* the filter cuts its arguments into options
ParseOptions ==
  /\ drawPc = "options"
  /\ options' = SplitOptions(graphArgs, 1)
  /\ drawPc' = "parsed"
  /\ UNCHANGED <<sentence, escaped, filterArgs, graphArgs, parsedWhole>>
  /\ UNCHANGED asideOverlay

InitOverlay ==
  /\ RunIdle
  /\ SynthIdle
  /\ MusicIdle
  /\ RaceIdle
  /\ FlowIdle
  /\ BatchIdle
  /\ sentence \in {s \in SeqsUpTo(SentenceChars, MaxSentenceLen) : s # <<>>}
  /\ escaped = <<>>
  /\ filterArgs = <<>>
  /\ graphArgs = <<>>
  /\ parsedWhole = FALSE
  /\ options = <<>>
  /\ drawPc = "escape"
  /\ SweepIdle
  /\ RetryIdle
  /\ FetchIdle
  /\ JoinerIdle
  /\ LegacyIdle
  /\ SchedIdle
  /\ ParserIdle

NextOverlay ==
  \/ EscapeSentence
  \/ BuildDrawtext
  \/ ParseFiltergraph
  \/ ParseOptions

SpecOverlay == InitOverlay /\ [][NextOverlay]_vars

\* C23: once a sentence's quotes are replaced by the escape sequence, no
\* character of it ends the text= value or the enable= expression: the engine
\* reads the whole string as the filter's arguments and finds exactly the
\* options text, fontsize and enable, the last one with its expression intact
C23_SentenceCannotEndTextValue ==
  drawPc = "parsed" =>
    /\ parsedWhole
    /\ Len(options) = 3
    /\ options[1] # <<>> /\ options[1][1] = "text="
    /\ options[2] = <<"fontsize=72">>
    /\ options[3] = <<"enable=">> \o EnableExpr

\* ---------------------------------------------------------------------------
\* cleanup: old asset folders and temp- folders, announced or removed
\* ---------------------------------------------------------------------------

\* one directory entry: what its name looks like, whether it is a directory,
\* whether it was modified before the cutoff, and what getFolderSize makes of
\* it (0 when it cannot be read)
Entry(name, isDir, old, size) == [name |-> name, isDirectory |-> isDir, old |-> old, size |-> size]

\* entries of assets/: dated folders old and recent, a folder with another
\* name, a dated file
AssetEntryPool ==
  {Entry("dated", TRUE, TRUE, 1), Entry("dated", TRUE, TRUE, 0), Entry("dated", TRUE, FALSE, 2),
   Entry("other", TRUE, TRUE, 2), Entry("dated", FALSE, TRUE, 1)}

\* entries of output/: temp- folders old and recent, a run's folder, a file
\* named temp-..., a final video or side-file
OutputEntryPool ==
  {Entry("temp", TRUE, TRUE, 2), Entry("temp", TRUE, FALSE, 1),
   Entry("other", TRUE, TRUE, 1), Entry("temp", FALSE, TRUE, 2), Entry("other", FALSE, TRUE, 1)}

Listing(dir) == IF dir = "assets" THEN assetEntries ELSE outputEntries

AllListed == {<<dir, k>> : dir \in {"assets"}, k \in 1..Len(assetEntries)} \cup {<<dir, k>> : dir \in {"output"}, k \in 1..Len(outputEntries)}

Selected_IgnoreAge(dir, e) == e.isDirectory /\ e.name \in {"dated", "temp"}

\* the test an entry has to pass to be cleaned up
Selected(dir, e) ==
  IF dir = "assets"
  THEN e.isDirectory /\ e.name = "dated" /\ e.old
  ELSE e.isDirectory /\ e.name = "temp"

\* where the scan goes after the entry at position k of dir
ScanAfter(dir, k) ==
  IF k < Len(Listing(dir)) THEN [dir |-> dir, at |-> k, pc |-> "scan"]
  ELSE IF dir = "assets" THEN [dir |-> "output", at |-> 0, pc |-> IF outputEntries = <<>> THEN "summary" ELSE "scan"]
  ELSE [dir |-> dir, at |-> k, pc |-> "summary"]

Announce(r, dir, k) ==
  [folders |-> Append(r.folders, <<dir, k>>), count |-> r.count + 1, size |-> r.size + Listing(dir)[k].size]

CleanupEntry_AlwaysRemove ==
  /\ cleanPc = "scan"
  /\ LET k == scanAt + 1
         e == Listing(scanDir)[k]
         after == ScanAfter(scanDir, k)
     IN  IF <<scanDir, k>> \in present /\ Selected(scanDir, e)
         THEN /\ report' = Announce(report, scanDir, k)
              /\ \E ok \in BOOLEAN :
                   /\ present' = IF ok THEN present \ {<<scanDir, k>>} ELSE present
                   /\ cleanPc' = IF ok THEN after.pc ELSE "failed"
                   /\ scanDir' = IF ok THEN after.dir ELSE scanDir
                   /\ scanAt' = IF ok THEN after.at ELSE scanAt
         ELSE /\ cleanPc' = after.pc
              /\ scanDir' = after.dir
              /\ scanAt' = after.at
              /\ UNCHANGED <<report, present>>
  /\ UNCHANGED <<assetEntries, outputEntries, dryRun, dryReport>>
  /\ UNCHANGED asideSweep

\* one turn of either for loop: stat, the test, getFolderSize, the counters,
\* the announcement and, without --dry-run, fs.remove
CleanupEntry ==
  /\ cleanPc = "scan"
  /\ LET k == scanAt + 1
         e == Listing(scanDir)[k]
         after == ScanAfter(scanDir, k)
     IN  IF <<scanDir, k>> \in present /\ Selected(scanDir, e)
         THEN /\ report' = Announce(report, scanDir, k)
              /\ \E ok \in IF dryRun THEN {TRUE} ELSE BOOLEAN :
                   /\ present' = IF ok /\ ~dryRun THEN present \ {<<scanDir, k>>} ELSE present
                   /\ cleanPc' = IF ok THEN after.pc ELSE "failed"
                   /\ scanDir' = IF ok THEN after.dir ELSE scanDir
                   /\ scanAt' = IF ok THEN after.at ELSE scanAt
         ELSE /\ cleanPc' = after.pc
              /\ scanDir' = after.dir
              /\ scanAt' = after.at
              /\ UNCHANGED <<report, present>>
  /\ UNCHANGED <<assetEntries, outputEntries, dryRun, dryReport>>
  /\ UNCHANGED asideSweep

\* the summary lines
PrintSummary ==
  /\ cleanPc = "summary"
  /\ cleanPc' = "done"
  /\ UNCHANGED <<assetEntries, outputEntries, present, dryRun, scanDir, scanAt, report, dryReport>>
  /\ UNCHANGED asideSweep

\* where a scan starts
ScanStart ==
  IF assetEntries # <<>> THEN [dir |-> "assets", pc |-> "scan"]
  ELSE IF outputEntries # <<>> THEN [dir |-> "output", pc |-> "scan"]
  ELSE [dir |-> "output", pc |-> "summary"]

\* the same invocation again, now without --dry-run
RunWithoutDryRun ==
  /\ cleanPc = "done"
  /\ dryRun
  /\ dryRun' = FALSE
  /\ dryReport' = report
  /\ report' = NoReport
  /\ scanDir' = ScanStart.dir
  /\ scanAt' = 0
  /\ cleanPc' = ScanStart.pc
  /\ UNCHANGED <<assetEntries, outputEntries, present>>
  /\ UNCHANGED asideSweep

InitSweep ==
  /\ RunIdle
  /\ SynthIdle
  /\ MusicIdle
  /\ RaceIdle
  /\ FlowIdle
  /\ BatchIdle
  /\ OverlayIdle
  /\ assetEntries \in SeqsUpTo(AssetEntryPool, MaxEntries)
  /\ outputEntries \in SeqsUpTo(OutputEntryPool, MaxEntries)
  /\ present = AllListed
  /\ dryRun = TRUE
  /\ cleanPc = ScanStart.pc
  /\ scanDir = ScanStart.dir
  /\ scanAt = 0
  /\ report = NoReport
  /\ dryReport = NoReport
  /\ RetryIdle
  /\ FetchIdle
  /\ JoinerIdle
  /\ LegacyIdle
  /\ SchedIdle
  /\ ParserIdle

NextSweep ==
  \/ CleanupEntry
  \/ PrintSummary
  \/ RunWithoutDryRun

SpecSweep == InitSweep /\ [][NextSweep]_vars

\* C26: cleanup with --dry-run removes nothing, and the folders, the count and
\* the total size it reports are the ones the same invocation without
\* --dry-run then reports and removes
C26_DryRunPreviewsTheRealRun ==
  /\ dryRun => present = AllListed
  /\ ~dryRun /\ cleanPc = "done" =>
       /\ report = dryReport
       /\ AllListed \ present = {dryReport.folders[k] : k \in 1..Len(dryReport.folders)}

C26_Witness ==
  /\ ~dryRun
  /\ cleanPc = "done"
  /\ dryReport.count = 2
  /\ dryReport.size = 3
  /\ Cardinality(present) = 2

\* ---------------------------------------------------------------------------
\* downloadAssetWithRetry: up to maxRetries attempts with a growing pause
\* ---------------------------------------------------------------------------

\* how long the request and the write of one attempt may take, in seconds
AttemptSeconds == {0, 1}

\* how late a timer may fire, in seconds
TimerLatenessSeconds == {0, 1}

\* what a failed attempt reports
FailureMessages == {"timeout of 60000ms exceeded", "Request failed with status code 404"}

RECURSIVE Pow2(_)
Pow2(k) == IF k <= 0 THEN 1 ELSE 2 * Pow2(k - 1)

WaitTime_Fixed(k) == 1

\* Math.pow(2, attempt) * 1000 ms, in seconds
WaitTime(k) == Pow2(k)

Try(k, from, to, ok, message) == [attempt |-> k, startedAt |-> from, endedAt |-> to, ok |-> ok, message |-> message]

\* for (let attempt = 1; attempt <= maxRetries; attempt++) with no turn left
ThrowAfterRetries ==
  /\ retryPc = "attempt"
  /\ attempt > maxRetries
  /\ retryResult' = [how |-> "thrown", attempts |-> maxRetries, message |-> lastError]
  /\ retryPc' = "settled"
  /\ UNCHANGED <<maxRetries, attempt, retryClock, tries, lastError>>
  /\ UNCHANGED asideRetry

\* one attempt whose request and write succeed: the function returns
AttemptSucceeds ==
  /\ retryPc = "attempt"
  /\ attempt <= maxRetries
  /\ \E d \in AttemptSeconds :
       /\ retryClock' = retryClock + d
       /\ tries' = Append(tries, Try(attempt, retryClock, retryClock + d, TRUE, ""))
  /\ retryResult' = [how |-> "returned", attempts |-> attempt, message |-> ""]
  /\ retryPc' = "settled"
  /\ UNCHANGED <<maxRetries, attempt, lastError>>
  /\ UNCHANGED asideRetry

\* one attempt that throws: the catch block, its pause when a turn is left,
\* and attempt++
AttemptFails ==
  /\ retryPc = "attempt"
  /\ attempt <= maxRetries
  /\ \E d \in AttemptSeconds, m \in FailureMessages, late \in TimerLatenessSeconds :
       /\ tries' = Append(tries, Try(attempt, retryClock, retryClock + d, FALSE, m))
       /\ lastError' = m
       /\ retryClock' = IF attempt < maxRetries THEN retryClock + d + WaitTime(attempt) + late ELSE retryClock + d
  /\ attempt' = attempt + 1
  /\ UNCHANGED <<maxRetries, retryPc, retryResult>>
  /\ UNCHANGED asideRetry

\* one attempt whose response stream breaks off after the request succeeded:
\* neither 'finish' nor 'error' reaches the writer, and the promise of lines
\* 446-452 stays pending
AttemptStalls ==
  /\ retryPc = "attempt"
  /\ attempt <= maxRetries
  /\ tries' = Append(tries, Try(attempt, retryClock, retryClock, FALSE, "stalled"))
  /\ retryPc' = "stalled"
  /\ UNCHANGED <<maxRetries, attempt, retryClock, lastError, retryResult>>
  /\ UNCHANGED asideRetry

InitRetry ==
  /\ RunIdle
  /\ SynthIdle
  /\ MusicIdle
  /\ RaceIdle
  /\ FlowIdle
  /\ BatchIdle
  /\ OverlayIdle
  /\ SweepIdle
  /\ maxRetries \in 1..MaxAttempts
  /\ attempt = 1
  /\ retryPc = "attempt"
  /\ retryClock = 0
  /\ tries = <<>>
  /\ lastError = "null"
  /\ retryResult = NoSettling
  /\ FetchIdle
  /\ JoinerIdle
  /\ LegacyIdle
  /\ SchedIdle
  /\ ParserIdle

NextRetry ==
  \/ AttemptSucceeds
  \/ AttemptFails
  \/ AttemptStalls
  \/ ThrowAfterRetries

SpecRetry == InitRetry /\ [][NextRetry]_vars

\* C27: downloadAssetWithRetry makes at most maxRetries attempts and none after
\* a success; it returns as soon as an attempt succeeds; attempt k+1 starts at
\* least 2^k seconds after failed attempt k ended and nothing is waited for
\* after the last attempt; it throws only after exactly maxRetries failed
\* attempts, and the error names the last failure's message
C27_RetryWithBackoff ==
  /\ Len(tries) <= maxRetries
  /\ \A k \in 1..Len(tries) : tries[k].attempt = k
  /\ \A k \in 1..(Len(tries) - 1) : ~tries[k].ok /\ tries[k].message \in FailureMessages
  /\ \A k \in 2..Len(tries) : tries[k].startedAt >= tries[k - 1].endedAt + Pow2(k - 1)
  /\ retryResult.how = "returned" =>
       /\ tries[Len(tries)].ok
       /\ retryClock = tries[Len(tries)].endedAt
  /\ retryResult.how = "thrown" =>
       /\ Len(tries) = maxRetries
       /\ \A k \in 1..Len(tries) : ~tries[k].ok
       /\ retryResult.attempts = maxRetries
       /\ retryResult.message = tries[Len(tries)].message
       /\ retryClock = tries[Len(tries)].endedAt

C27_Witness ==
  /\ retryResult.how = "thrown"
  /\ maxRetries = 3
  /\ tries[1].message # tries[3].message
  /\ tries[3].startedAt = tries[2].endedAt + 4

\* ---------------------------------------------------------------------------
\* downloadAssets: videos first, photos for what is still missing
\* ---------------------------------------------------------------------------

\* a found video: with an HD file that fits and a duration of 15-30 s, with
\* some other file, or with no file at all
VideoKinds == {"suitable", "plain", "empty"}

\* a found photo: portrait or crop-friendly, or not
PhotoKinds == {"suitable", "plain"}

\* Math.ceil(count * 0.8)
VideosNeeded(c) == (c * 4 + 4) \div 5

Slice_All(s, n) == s

\* slice(0, n)
Slice(s, n) == SubSeq(s, 1, Min(n, Len(s)))

Candidate(id, kind) == [id |-> id, kind |-> kind]

\* the suitable results when there are any, else all of them; the first n
Pick(found, n) ==
  LET all == [k \in 1..Len(found) |-> Candidate(k, found[k])]
      suitable == SelectSeq(all, LAMBDA c : c.kind = "suitable")
  IN  IF suitable # <<>> THEN Slice(suitable, n) ELSE Slice(all, n)

Asset(type, id, relevance) == [type |-> type, id |-> id, relevance |-> relevance]

\* where a of relevance r goes in a list sorted by falling relevance
RECURSIVE InsertByRelevance(_, _)
InsertByRelevance(sorted, a) ==
  IF sorted = <<>> THEN <<a>>
  ELSE IF Head(sorted).relevance >= a.relevance THEN <<Head(sorted)>> \o InsertByRelevance(Tail(sorted), a)
  ELSE <<a>> \o sorted

\* downloadedAssets.sort((a, b) => (b.relevance || 0) - (a.relevance || 0))
RECURSIVE SortByRelevance(_)
SortByRelevance(as) ==
  IF as = <<>> THEN <<>>
  ELSE InsertByRelevance(SortByRelevance(SubSeq(as, 1, Len(as) - 1)), as[Len(as)])

\* await fs.ensureDir(assetsDir)
EnsureAssetsDir ==
  /\ fetchPc = "ensureDir"
  /\ \E ok \in BOOLEAN :
       /\ fetchLog' = Append(fetchLog, Op("ensureDir", 0, ok))
       /\ fetchPc' = IF ok THEN "searchVideos" ELSE "settled"
       /\ fetchResult' = IF ok THEN fetchResult ELSE [how |-> "thrown", cause |-> "ensureDir", assets |-> <<>>]
  /\ UNCHANGED <<count, videosToDownload, photosToDownload, fetchAt, downloadedAssets>>
  /\ UNCHANGED asideFetch

\* the stage after the video stage: photos when assets are still needed
AfterVideos(assets) == IF count - Len(assets) > 0 THEN "searchPhotos" ELSE "save"

\* searchPexelsVideos and the choice of videosToDownload; a rejected search
\* is caught at line 567
SearchVideos ==
  /\ fetchPc = "searchVideos"
  /\ \/ /\ fetchLog' = Append(fetchLog, Op("searchVideos", 0, FALSE))
        /\ fetchPc' = AfterVideos(downloadedAssets)
        /\ UNCHANGED videosToDownload
     \/ \E found \in SeqsUpTo(VideoKinds, MaxFound) :
          /\ fetchLog' = Append(fetchLog, Op("searchVideos", 0, TRUE))
          /\ videosToDownload' = Pick(found, VideosNeeded(count))
          /\ fetchPc' = IF Pick(found, VideosNeeded(count)) = <<>> THEN AfterVideos(downloadedAssets) ELSE "videos"
  /\ fetchAt' = 0
  /\ UNCHANGED <<count, photosToDownload, downloadedAssets, fetchResult>>
  /\ UNCHANGED asideFetch

DownloadVideo_Abort ==
  /\ fetchPc = "videos"
  /\ LET video == videosToDownload[fetchAt + 1]
         last == fetchAt + 1 >= Len(videosToDownload)
     IN  \E ok \in BOOLEAN :
           LET tried == video.kind # "empty"
               assets == IF tried /\ ok
                         THEN Append(downloadedAssets, Asset("video", video.id, Len(videosToDownload) - fetchAt))
                         ELSE downloadedAssets
           IN  /\ downloadedAssets' = assets
               /\ fetchLog' = IF tried THEN Append(fetchLog, Op("video", fetchAt, ok)) ELSE fetchLog
               /\ fetchPc' = IF tried /\ ~ok THEN "settled" ELSE IF last THEN AfterVideos(assets) ELSE "videos"
               /\ fetchResult' = IF tried /\ ~ok THEN [how |-> "thrown", cause |-> "video", assets |-> <<>>] ELSE fetchResult
               /\ fetchAt' = IF last THEN 0 ELSE fetchAt + 1
  /\ UNCHANGED <<count, videosToDownload, photosToDownload>>
  /\ UNCHANGED asideFetch

\* one turn of the video loop: downloadAssetWithRetry for a video with a file,
\* the push when it resolved, the warning when it threw
DownloadVideo ==
  /\ fetchPc = "videos"
  /\ LET video == videosToDownload[fetchAt + 1]
         last == fetchAt + 1 >= Len(videosToDownload)
     IN  \E ok \in BOOLEAN :
           LET tried == video.kind # "empty"
               assets == IF tried /\ ok
                         THEN Append(downloadedAssets, Asset("video", video.id, Len(videosToDownload) - fetchAt))
                         ELSE downloadedAssets
           IN  /\ downloadedAssets' = assets
               /\ fetchLog' = IF tried THEN Append(fetchLog, Op("video", fetchAt, ok)) ELSE fetchLog
               /\ fetchPc' = IF last THEN AfterVideos(assets) ELSE "videos"
               /\ fetchAt' = IF last THEN 0 ELSE fetchAt + 1
  /\ UNCHANGED <<count, videosToDownload, photosToDownload, fetchResult>>
  /\ UNCHANGED asideFetch

\* searchPexelsPhotos for the assets still needed; a rejected search is caught
\* at line 614
SearchPhotos ==
  /\ fetchPc = "searchPhotos"
  /\ \/ /\ fetchLog' = Append(fetchLog, Op("searchPhotos", 0, FALSE))
        /\ fetchPc' = "save"
        /\ UNCHANGED photosToDownload
     \/ \E found \in SeqsUpTo(PhotoKinds, MaxFound) :
          /\ fetchLog' = Append(fetchLog, Op("searchPhotos", 0, TRUE))
          /\ photosToDownload' = Pick(found, count - Len(downloadedAssets))
          /\ fetchPc' = IF found = <<>> THEN "save" ELSE "photos"
  /\ fetchAt' = 0
  /\ UNCHANGED <<count, videosToDownload, downloadedAssets, fetchResult>>
  /\ UNCHANGED asideFetch

\* one turn of the photo loop
DownloadPhoto ==
  /\ fetchPc = "photos"
  /\ LET photo == photosToDownload[fetchAt + 1]
         last == fetchAt + 1 >= Len(photosToDownload)
     IN  \E ok \in BOOLEAN :
           /\ downloadedAssets' = IF ok
                                  THEN Append(downloadedAssets, Asset("photo", photo.id, Len(photosToDownload) - fetchAt))
                                  ELSE downloadedAssets
           /\ fetchLog' = Append(fetchLog, Op("photo", fetchAt, ok))
           /\ fetchPc' = IF last THEN "save" ELSE "photos"
           /\ fetchAt' = IF last THEN 0 ELSE fetchAt + 1
  /\ UNCHANGED <<count, videosToDownload, photosToDownload, fetchResult>>
  /\ UNCHANGED asideFetch

\* the sort, metadata.json and the return
SaveMetadata ==
  /\ fetchPc = "save"
  /\ downloadedAssets' = SortByRelevance(downloadedAssets)
  /\ \E ok \in BOOLEAN :
       /\ fetchLog' = Append(fetchLog, Op("writeJson", 0, ok))
       /\ fetchResult' = IF ok THEN [how |-> "returned", cause |-> "", assets |-> SortByRelevance(downloadedAssets)]
                         ELSE [how |-> "thrown", cause |-> "writeJson", assets |-> <<>>]
  /\ fetchPc' = "settled"
  /\ UNCHANGED <<count, videosToDownload, photosToDownload, fetchAt>>
  /\ UNCHANGED asideFetch

InitFetch ==
  /\ RunIdle
  /\ SynthIdle
  /\ MusicIdle
  /\ RaceIdle
  /\ FlowIdle
  /\ BatchIdle
  /\ OverlayIdle
  /\ SweepIdle
  /\ RetryIdle
  /\ count \in 1..MaxCount
  /\ fetchPc = "ensureDir"
  /\ videosToDownload = <<>>
  /\ photosToDownload = <<>>
  /\ fetchAt = 0
  /\ downloadedAssets = <<>>
  /\ fetchLog = <<>>
  /\ fetchResult = NoFetchResult
  /\ JoinerIdle
  /\ LegacyIdle
  /\ SchedIdle
  /\ ParserIdle

NextFetch ==
  \/ EnsureAssetsDir
  \/ SearchVideos
  \/ DownloadVideo
  \/ SearchPhotos
  \/ DownloadPhoto
  \/ SaveMetadata

SpecFetch == InitFetch /\ [][NextFetch]_vars

\* the downloads of one type made so far, and those that resolved
DownloadsOf(type) == SelectSeq(fetchLog, LAMBDA o : o.op = type)

\* the positions of the candidates that can be downloaded at all
WithFile(cands) == SelectSeq([k \in 1..Len(cands) |-> [at |-> k - 1, kind |-> cands[k].kind]], LAMBDA c : c.kind # "empty")

Resolved(type, cands) ==
  {Asset(type, cands[o.idx + 1].id, Len(cands) - o.idx) : o \in {DownloadsOf(type)[k] : k \in {j \in 1..Len(DownloadsOf(type)) : DownloadsOf(type)[j].ok}}}

\* C28: in downloadAssets a failed download (after its retries) or a failed
\* video or photo search never makes the call throw; the failed item is
\* skipped, every remaining candidate is still attempted, a failed video
\* search still lets the photos be searched, and the call returns exactly the
\* downloads that succeeded, possibly none
C28_FailuresAreSkipped ==
  /\ fetchResult.how = "thrown" => fetchResult.cause \in {"ensureDir", "writeJson"}
  /\ fetchPc \in {"searchPhotos", "photos", "save", "settled"} /\ fetchResult.cause # "ensureDir" =>
       [k \in 1..Len(DownloadsOf("video")) |-> DownloadsOf("video")[k].idx] =
         [k \in 1..Len(WithFile(videosToDownload)) |-> WithFile(videosToDownload)[k].at]
  /\ fetchPc \in {"save", "settled"} /\ fetchResult.cause # "ensureDir" =>
       /\ [k \in 1..Len(DownloadsOf("photo")) |-> DownloadsOf("photo")[k].idx] =
            [k \in 1..Len(photosToDownload) |-> k - 1]
       /\ count > Cardinality(Resolved("video", videosToDownload)) => DownloadsOf("searchPhotos") # <<>>
  /\ fetchResult.how = "returned" =>
       /\ {fetchResult.assets[k] : k \in 1..Len(fetchResult.assets)} =
            Resolved("video", videosToDownload) \cup Resolved("photo", photosToDownload)
       /\ Len(fetchResult.assets) =
            Cardinality(Resolved("video", videosToDownload)) + Cardinality(Resolved("photo", photosToDownload))

C28_Witness ==
  /\ fetchResult.how = "returned"
  /\ Op("video", 0, FALSE) \in {fetchLog[k] : k \in 1..Len(fetchLog)}
  /\ Op("video", 1, TRUE) \in {fetchLog[k] : k \in 1..Len(fetchLog)}
  /\ Op("photo", 0, FALSE) \in {fetchLog[k] : k \in 1..Len(fetchLog)}
  /\ Len(fetchResult.assets) = 1

\* ---------------------------------------------------------------------------
\* concatenateVideos: nothing, one video, or several
\* ---------------------------------------------------------------------------

RECURSIVE SumSeq(_)
SumSeq(s) == IF s = <<>> THEN 0 ELSE Head(s) + SumSeq(Tail(s))

CopiedVideo_Trimmed(d, target) == [via |-> "copy", duration |-> IF target > 0 THEN Min(d, target) ELSE d]

\* fs.copy(videoPaths[0], outputPath)
CopiedVideo(d, target) == [via |-> "copy", duration |-> d]

\* the concat demuxer with -c copy, cut by command.duration when
\* targetDuration is truthy
ConcatenatedVideo(ds, target) ==
  [via |-> "concat", duration |-> IF target > 0 THEN Min(SumSeq(ds), target) ELSE SumSeq(ds)]

\* throw new Error('No videos to concatenate'), caught and thrown again
ThrowNoVideos ==
  /\ joinPc = "start"
  /\ Len(videoPaths) = 0
  /\ joinResult' = [how |-> "thrown", message |-> "No videos to concatenate"]
  /\ joinPc' = "settled"
  /\ UNCHANGED <<videoPaths, targetDuration, joinLog, listFile, joined>>
  /\ UNCHANGED asideJoiner

\* a single video is copied
CopySingleVideo ==
  /\ joinPc = "start"
  /\ Len(videoPaths) = 1
  /\ \E ok \in BOOLEAN :
       /\ joinLog' = Append(joinLog, Op("copy", 0, ok))
       /\ joined' = IF ok THEN CopiedVideo(videoPaths[1], targetDuration) ELSE joined
       /\ joinResult' = IF ok THEN [how |-> "returned", message |-> ""] ELSE [how |-> "thrown", message |-> "copy failed"]
  /\ joinPc' = "settled"
  /\ UNCHANGED <<videoPaths, targetDuration, listFile>>
  /\ UNCHANGED asideJoiner

\* fs.writeFile(listFilePath, listContent)
WriteVideoList ==
  /\ joinPc = "start"
  /\ Len(videoPaths) > 1
  /\ \E ok \in BOOLEAN :
       /\ joinLog' = Append(joinLog, Op("writeList", 0, ok))
       /\ listFile' = ok
       /\ joinPc' = IF ok THEN "concat" ELSE "settled"
       /\ joinResult' = IF ok THEN joinResult ELSE [how |-> "thrown", message |-> "write failed"]
  /\ UNCHANGED <<videoPaths, targetDuration, joined>>
  /\ UNCHANGED asideJoiner

\* the concat command, up to its 'end' or 'error' event
RunVideoConcat ==
  /\ joinPc = "concat"
  /\ \E ok \in BOOLEAN :
       /\ joinLog' = Append(joinLog, Op("concat", 0, ok))
       /\ joined' = IF ok THEN ConcatenatedVideo(videoPaths, targetDuration) ELSE joined
       /\ joinPc' = IF ok THEN "end" ELSE "error"
  /\ UNCHANGED <<videoPaths, targetDuration, listFile, joinResult>>
  /\ UNCHANGED asideJoiner

\* the handlers of 'end' and 'error': the list file is removed, then the
\* promise settles; when fs.remove rejects, the handler ends before it does
RemoveVideoList ==
  /\ joinPc \in {"end", "error"}
  /\ \E ok \in BOOLEAN :
       /\ joinLog' = Append(joinLog, Op("removeList", 0, ok))
       /\ listFile' = IF ok THEN FALSE ELSE listFile
       /\ joinPc' = IF ok THEN "settled" ELSE "hung"
       /\ joinResult' = IF ~ok THEN joinResult
                        ELSE IF joinPc = "end" THEN [how |-> "returned", message |-> ""]
                        ELSE [how |-> "thrown", message |-> "concat failed"]
  /\ UNCHANGED <<videoPaths, targetDuration, joined>>
  /\ UNCHANGED asideJoiner

InitJoiner ==
  /\ RunIdle
  /\ SynthIdle
  /\ MusicIdle
  /\ RaceIdle
  /\ FlowIdle
  /\ BatchIdle
  /\ OverlayIdle
  /\ SweepIdle
  /\ RetryIdle
  /\ FetchIdle
  /\ videoPaths \in SeqsUpTo(1..MaxJoinDur, MaxJoin)
  /\ targetDuration \in 0..MaxJoinDur
  /\ joinPc = "start"
  /\ joinLog = <<>>
  /\ listFile = FALSE
  /\ joined = NoVideo
  /\ joinResult = NoJoinResult
  /\ LegacyIdle
  /\ SchedIdle
  /\ ParserIdle

NextJoiner ==
  \/ ThrowNoVideos
  \/ CopySingleVideo
  \/ WriteVideoList
  \/ RunVideoConcat
  \/ RemoveVideoList

SpecJoiner == InitJoiner /\ [][NextJoiner]_vars

\* C29: with exactly one input concatenateVideos copies it to outputPath,
\* writes no concat list and does not invoke the concat engine, and the copy
\* keeps the input's duration whatever targetDuration is; with no input it
\* throws 'No videos to concatenate' without doing anything
C29_SingleVideoCopiedNoneThrows ==
  /\ Len(videoPaths) = 1 /\ joinPc = "settled" =>
       /\ Len(joinLog) = 1 /\ joinLog[1].op = "copy"
       /\ ~listFile
       /\ joinResult.how = "returned" <=> joinLog[1].ok
       /\ joinResult.how = "returned" => joined = [via |-> "copy", duration |-> videoPaths[1]]
  /\ Len(videoPaths) = 0 /\ joinPc = "settled" =>
       /\ joinResult = [how |-> "thrown", message |-> "No videos to concatenate"]
       /\ joinLog = <<>>
       /\ joined = NoVideo
  /\ Len(videoPaths) <= 1 => joinPc \in {"start", "settled"}

C29_Witness ==
  /\ Len(videoPaths) = 1
  /\ joinResult.how = "returned"
  /\ targetDuration = 1
  /\ joined.duration = 2

\* ---------------------------------------------------------------------------
\* createShort when every step that can be taken is taken
\* ---------------------------------------------------------------------------

\* every external call settles and the event loop runs what is ready: a step
\* of createShort that stays possible is taken
SpecLive == Init /\ [][Next]_vars /\ WF_vars(Next)

\* C30: when every external call settles, createShort eventually settles, for
\* every combination of probed narration and clip durations, clips probed at 0
\* seconds included
C30_EventuallySettles == <>(pc = "settled")

\* the characters of a text that are not blanks, in order: blanks left out
\* and neighbouring runs of one character joined
RECURSIVE NonBlank(_, _)
NonBlank(t, acc) ==
  IF t = <<>> THEN acc
  ELSE IF Head(t).c = " " THEN NonBlank(Tail(t), acc)
  ELSE IF acc # <<>> /\ acc[Len(acc)].c = Head(t).c
    THEN NonBlank(Tail(t), [acc EXCEPT ![Len(acc)].n = @ + Head(t).n])
  ELSE NonBlank(Tail(t), Append(acc, Head(t)))

RECURSIVE JoinChunks(_)
JoinChunks(cs) == IF cs = <<>> THEN <<>> ELSE Head(cs) \o JoinChunks(Tail(cs))

\* C31: the chunks of generateTTSAudio, joined in order, hold every
\* non-blank character of the text exactly once and in the original order, a
\* trailing fragment without '.', '!' or '?' included
C31_ChunkingLosesNoText ==
  ChunksMade => NonBlank(JoinChunks(chunks), <<>>) = NonBlank(text, <<>>)

\* ---------------------------------------------------------------------------
\* cleanup in one process while createShort runs in another
\* ---------------------------------------------------------------------------

\* one turn of cleanup's loop over output/ without --dry-run: an entry that
\* is a directory and whose name starts with 'temp-' is removed, whatever its
\* age
SweepTempFolder ==
  /\ \E w \in workspaces :
       \/ /\ workspaces' = workspaces \ {w}
          /\ intermediates' = {f \in intermediates : f[1] # w}
       \/ UNCHANGED <<workspaces, intermediates>>
  /\ UNCHANGED <<clock, jobPc, jobTempDir>>
  /\ UNCHANGED asideRace

NextSweepRace ==
  \/ TickClock
  \/ \E j \in Jobs : StartShort(j)
  \/ \E j \in Jobs : WriteIntermediates(j)
  \/ \E j \in Jobs : RemoveWorkspace(j)
  \/ SweepTempFolder

SpecSweepRace == InitRace /\ [][NextSweepRace]_vars

\* C32: a step of cleanup (the workspaces change while no run moves) never
\* takes away the workspace of a run that is still in progress
C32_CleanupSparesRunningWorkspaces ==
  [][(workspaces' # workspaces /\ jobPc' = jobPc) =>
       \A j \in Jobs : (InProgress(j) /\ jobTempDir[j] \in workspaces) => jobTempDir[j] \in workspaces']_vars

\* the entries the documentation lets cleanup delete: folders of assets/ with
\* a dated name and a modification time before the cutoff, and folders of
\* output/ named temp-...
Deletable ==
  {<<"assets", k>> : k \in {j \in 1..Len(assetEntries) :
      assetEntries[j].isDirectory /\ assetEntries[j].name = "dated" /\ assetEntries[j].old}}
  \cup
  {<<"output", k>> : k \in {j \in 1..Len(outputEntries) :
      outputEntries[j].isDirectory /\ outputEntries[j].name = "temp"}}

\* C33: without --dry-run cleanup removes nothing but old dated folders of
\* assets/ and temp- folders of output/, and a run that reaches its summary
\* has removed every one of them; files, other output folders and recent
\* assets folders stay
C33_CleanupDeletesExactlyTheListed ==
  /\ AllListed \ present \subseteq Deletable
  /\ ~dryRun /\ cleanPc = "done" => AllListed \ present = Deletable

C33_Witness ==
  /\ ~dryRun
  /\ cleanPc = "done"
  /\ assetEntries = <<Entry("dated", TRUE, FALSE, 2), Entry("dated", TRUE, TRUE, 1)>>
  /\ outputEntries = <<Entry("other", FALSE, TRUE, 1), Entry("temp", TRUE, FALSE, 1)>>
  /\ present = {<<"assets", 1>>, <<"output", 1>>}

\* ---------------------------------------------------------------------------
\* createVideo (legacy): scale and crop, probe, concatenate, merge
\* ---------------------------------------------------------------------------

\* whether scaleAndCropVideo resolves for an asset: the file is there and the
\* engine can convert it
Scalable(p) == pathExists(p) /\ Transcodable(p)

NoVideosProcessed == "No videos were successfully processed"

\* a rejected await outside the loop's try: the catch block logs and throws
\* the same error; nothing is removed
LegacyThrow(message) ==
  /\ legacyResult' = [how |-> "thrown", message |-> message]
  /\ legacyPc' = "settled"

\* await fs.ensureDir(outputDir)
EnsureLegacyOutputDir ==
  /\ legacyPc = "ensureOutputDir"
  /\ \/ /\ legacyLog' = Append(legacyLog, Op("ensureDir", 0, TRUE))
        /\ legacyPc' = "ensureTempDir"
        /\ UNCHANGED legacyResult
     \/ /\ legacyLog' = Append(legacyLog, Op("ensureDir", 0, FALSE))
        /\ LegacyThrow("ensureDir failed")
  /\ UNCHANGED <<legacyVideos, legacyAt, legacyProcessed, legacyTempDir>>
  /\ UNCHANGED asideLegacy

\* await fs.ensureDir(tempDir), and the test after a loop over no videos
EnsureLegacyTempDir ==
  /\ legacyPc = "ensureTempDir"
  /\ \/ /\ legacyLog' = Append(legacyLog, Op("ensureDir", 1, TRUE))
        /\ legacyTempDir' = TRUE
        /\ IF legacyVideos = <<>>
             THEN LegacyThrow(NoVideosProcessed)
             ELSE legacyPc' = "scale" /\ UNCHANGED legacyResult
     \/ /\ legacyLog' = Append(legacyLog, Op("ensureDir", 1, FALSE))
        /\ LegacyThrow("ensureDir failed")
        /\ UNCHANGED legacyTempDir
  /\ UNCHANGED <<legacyVideos, legacyAt, legacyProcessed>>
  /\ UNCHANGED asideLegacy

ScaleAndCrop_Abort ==
  /\ legacyPc = "scale"
  /\ LET ok == Scalable(legacyVideos[legacyAt + 1])
         last == legacyAt + 1 >= Len(legacyVideos)
         processed == IF ok THEN Append(legacyProcessed, legacyAt) ELSE legacyProcessed
     IN  /\ legacyLog' = Append(legacyLog, Op("scaleAndCrop", legacyAt, ok))
         /\ legacyProcessed' = processed
         /\ legacyAt' = IF last THEN 0 ELSE legacyAt + 1
         /\ IF ~ok THEN LegacyThrow("scaleAndCrop failed")
            ELSE legacyPc' = (IF last THEN "probeAudio" ELSE "scale") /\ UNCHANGED legacyResult
  /\ UNCHANGED <<legacyVideos, legacyTempDir>>
  /\ UNCHANGED asideLegacy

\* one turn of the Step 1 loop, with the test that follows the last turn
ScaleAndCrop ==
  /\ legacyPc = "scale"
  /\ LET ok == Scalable(legacyVideos[legacyAt + 1])
         last == legacyAt + 1 >= Len(legacyVideos)
         processed == IF ok THEN Append(legacyProcessed, legacyAt) ELSE legacyProcessed
     IN  /\ legacyLog' = Append(legacyLog, Op("scaleAndCrop", legacyAt, ok))
         /\ legacyProcessed' = processed
         /\ legacyAt' = IF last THEN 0 ELSE legacyAt + 1
         /\ IF last /\ processed = <<>> THEN LegacyThrow(NoVideosProcessed)
            ELSE legacyPc' = (IF last THEN "probeAudio" ELSE "scale") /\ UNCHANGED legacyResult
  /\ UNCHANGED <<legacyVideos, legacyTempDir>>
  /\ UNCHANGED asideLegacy

\* Steps 2 to 4 and the removal of tempDir: each awaited call in turn
LegacyStep(at, name, next) ==
  /\ legacyPc = at
  /\ \/ /\ legacyLog' = Append(legacyLog, Op(name, 0, TRUE))
        /\ legacyPc' = next
        /\ legacyTempDir' = IF name = "remove" THEN FALSE ELSE legacyTempDir
        /\ legacyResult' = IF name = "remove" THEN [how |-> "returned", message |-> ""] ELSE legacyResult
     \/ /\ legacyLog' = Append(legacyLog, Op(name, 0, FALSE))
        /\ LegacyThrow(name)
        /\ UNCHANGED legacyTempDir
  /\ UNCHANGED <<legacyVideos, legacyAt, legacyProcessed>>
  /\ UNCHANGED asideLegacy

ProbeLegacyAudio == LegacyStep("probeAudio", "getAudioDuration", "concat")

ConcatenateLegacy == LegacyStep("concat", "concatenateVideos", "merge")

MergeLegacy == LegacyStep("merge", "mergeVideoWithAudio", "remove")

RemoveLegacyTempDir == LegacyStep("remove", "remove", "settled")

InitLegacy ==
  /\ RunIdle
  /\ SynthIdle
  /\ MusicIdle
  /\ RaceIdle
  /\ FlowIdle
  /\ BatchIdle
  /\ OverlayIdle
  /\ SweepIdle
  /\ RetryIdle
  /\ FetchIdle
  /\ JoinerIdle
  /\ legacyVideos \in SeqsUpTo(AssetPool, MaxLegacyVideos)
  /\ legacyPc = "ensureOutputDir"
  /\ legacyAt = 0
  /\ legacyProcessed = <<>>
  /\ legacyTempDir = FALSE
  /\ legacyLog = <<>>
  /\ legacyResult = NoLegacyResult
  /\ SchedIdle
  /\ ParserIdle

NextLegacy ==
  \/ EnsureLegacyOutputDir
  \/ EnsureLegacyTempDir
  \/ ScaleAndCrop
  \/ ProbeLegacyAudio
  \/ ConcatenateLegacy
  \/ MergeLegacy
  \/ RemoveLegacyTempDir

SpecLegacy == InitLegacy /\ [][NextLegacy]_vars

\* the input positions of the videos that can be processed, in input order
ScalableAt(vs) ==
  LET at == SelectSeq([k \in 1..Len(vs) |-> k], LAMBDA k : Scalable(vs[k]))
  IN  [k \in 1..Len(at) |-> at[k] - 1]

LegacyPastStep1 == legacyPc \in {"probeAudio", "concat", "merge", "remove"} \/ (legacyPc = "settled" /\ Op("ensureDir", 1, TRUE) \in {legacyLog[k] : k \in 1..Len(legacyLog)})

\* C34: createVideo skips each video whose scaleAndCropVideo fails and goes
\* on with the processed ones in input order; it throws 'No videos were
\* successfully processed' exactly when every video failed or none was given
C34_LegacyToleratesFailedVideos ==
  /\ LegacyPastStep1 =>
       /\ legacyProcessed = ScalableAt(legacyVideos)
       /\ Len(SelectSeq(legacyLog, LAMBDA o : o.op = "scaleAndCrop")) = Len(legacyVideos)
       /\ ScalableAt(legacyVideos) # <<>> => Op("getAudioDuration", 0, TRUE) \in {legacyLog[k] : k \in 1..Len(legacyLog)} \/ Op("getAudioDuration", 0, FALSE) \in {legacyLog[k] : k \in 1..Len(legacyLog)} \/ legacyPc = "probeAudio"
       /\ legacyPc = "settled" => (legacyResult.message = NoVideosProcessed <=> ScalableAt(legacyVideos) = <<>>)
  /\ legacyResult.message = NoVideosProcessed => legacyResult.how = "thrown" /\ ScalableAt(legacyVideos) = <<>>

C34_Witness ==
  /\ legacyResult.how = "returned"
  /\ legacyVideos = <<"broken.mp4", "clip.mp4", "missing.mp4">>
  /\ legacyProcessed = <<1>>

\* C35: once createVideo has returned or thrown, its temp-<timestamp>
\* directory no longer exists
C35_LegacyTempDirAlwaysRemoved ==
  legacyPc = "settled" => ~legacyTempDir

\* ---------------------------------------------------------------------------
\* schedule: each run picks niches at random and processes them in turn
\* ---------------------------------------------------------------------------

\* the lines a niches file is made of: niches, one of them indented, an
\* empty line, a blank line and a comment
LinePool == {"cats", " cats", "dogs", "", "  ", "# later"}

\* line.trim()
TrimLine(l) == IF l = " cats" THEN "cats" ELSE IF l = "  " THEN "" ELSE l

\* line.length > 0 && !line.startsWith('#'), on the trimmed line
IsNicheLine(l) == l # "" /\ l # "# later"

\* the trimmed lines that pass the filter, each with its line number
ReadNiches(lines) ==
  LET trimmed == [k \in 1..Len(lines) |-> [line |-> k, niche |-> TrimLine(lines[k])]]
  IN  SelectSeq(trimmed, LAMBDA e : IsNicheLine(e.niche))

Splice_Keep(s, at) == s

\* availableNiches.splice(randomIndex, 1), randomIndex counted from 0
Splice(s, at) == SubSeq(s, 1, at) \o SubSeq(s, at + 2, Len(s))

\* fs.readFile, the filter and the empty-file test
ReadNichesFile ==
  /\ schedPc = "read"
  /\ \/ /\ availableNiches' = ReadNiches(nichesFile)
        /\ schedPc' = IF ReadNiches(nichesFile) = <<>> THEN "done" ELSE "select"
     \/ /\ schedPc' = "failed"
        /\ UNCHANGED availableNiches
  /\ UNCHANGED <<nichesFile, perRun, selectedNiches, schedAt, schedRuns>>
  /\ UNCHANGED asideSched

\* one turn of the selection loop: Math.floor(Math.random() * length) is any
\* index of availableNiches
SelectNiche ==
  /\ schedPc = "select"
  /\ \E randomIndex \in 0..(Len(availableNiches) - 1) :
       /\ selectedNiches' = Append(selectedNiches, availableNiches[randomIndex + 1])
       /\ availableNiches' = Splice(availableNiches, randomIndex)
  /\ schedPc' = IF Len(selectedNiches) + 1 < Min(perRun, Len(ReadNiches(nichesFile))) THEN "select" ELSE "process"
  /\ UNCHANGED <<nichesFile, perRun, schedAt, schedRuns>>
  /\ UNCHANGED asideSched

\* one turn of the processing loop: runBatchPipeline resolves or rejects, the
\* pause, i++
ProcessSelected ==
  /\ schedPc = "process"
  /\ \E ok \in BOOLEAN :
       schedRuns' = Append(schedRuns, [index |-> schedAt, line |-> selectedNiches[schedAt + 1].line, ok |-> ok])
  /\ schedAt' = schedAt + 1
  /\ schedPc' = IF schedAt + 1 < Len(selectedNiches) THEN "process" ELSE "done"
  /\ UNCHANGED <<nichesFile, perRun, availableNiches, selectedNiches>>
  /\ UNCHANGED asideSched

InitSched ==
  /\ RunIdle
  /\ SynthIdle
  /\ MusicIdle
  /\ RaceIdle
  /\ FlowIdle
  /\ BatchIdle
  /\ OverlayIdle
  /\ SweepIdle
  /\ RetryIdle
  /\ FetchIdle
  /\ JoinerIdle
  /\ LegacyIdle
  /\ nichesFile \in SeqsUpTo(LinePool, MaxLines)
  /\ perRun \in 1..MaxPerRun
  /\ schedPc = "read"
  /\ availableNiches = <<>>
  /\ selectedNiches = <<>>
  /\ schedAt = 0
  /\ schedRuns = <<>>
  /\ ParserIdle

NextSched ==
  \/ ReadNichesFile
  \/ SelectNiche
  \/ ProcessSelected

SpecSched == InitSched /\ [][NextSched]_vars

\* the lines of the file that are neither empty nor comments
NicheLines == {k \in 1..Len(nichesFile) : TrimLine(nichesFile[k]) \notin {"", "# later"}}

\* C36: a scheduled run selects exactly min(count, number of niche lines)
\* niches, no file line twice, and then attempts every selected niche in
\* sequence, whatever the earlier attempts did
C36_ScheduledRunSelectsWithoutReplacement ==
  /\ \A a, b \in 1..Len(selectedNiches) : a # b => selectedNiches[a].line # selectedNiches[b].line
  /\ \A a \in 1..Len(selectedNiches) :
       /\ selectedNiches[a].line \in NicheLines
       /\ selectedNiches[a].niche = TrimLine(nichesFile[selectedNiches[a].line])
  /\ schedPc \in {"process", "done"} => Len(selectedNiches) = Min(perRun, Cardinality(NicheLines))
  /\ \A k \in 1..Len(schedRuns) : schedRuns[k].index = k - 1 /\ schedRuns[k].line = selectedNiches[k].line
  /\ schedPc = "done" => Len(schedRuns) = Len(selectedNiches)

C36_Witness ==
  /\ schedPc = "done"
  /\ perRun = 2
  /\ Cardinality(NicheLines) = 3
  /\ Len(schedRuns) = 2
  /\ ~schedRuns[1].ok
  /\ schedRuns[2].ok
  /\ selectedNiches[1].line > selectedNiches[2].line

\* the assets of one type among a list of assets
OfType(assets, type) == SelectSeq(assets, LAMBDA a : a.type = type)

\* the counts the download command accepts
ValidCounts == 1..50

MAX_CAPTION_LENGTH == 150

ELLIPSIS == <<[c |-> ".", n |-> 3]>>

ELLIPSIS_LENGTH == TextLength(ELLIPSIS)

\* the fallback hashtags '#viral #shorts'
FallbackHashtags == <<[c |-> "#viral #shorts", n |-> 14]>>

Marker(section) ==
  [c |-> section,
   n |-> CASE section = "SCRIPT:" -> 7 [] section = "CAPTION:" -> 8 [] section = "HASHTAGS:" -> 9]

Newline == [c |-> "\n", n |-> 1]

Word(len) == [c |-> "a", n |-> len]

\* \s
IsSpace(tok) == tok.c \in {" ", "\n"}

RECURSIVE JoinLines(_)
\* the lines of a text with a line feed between them
JoinLines(lines) ==
  IF lines = <<>> THEN <<>>
  ELSE IF Len(lines) = 1 THEN Head(lines)
  ELSE Head(lines) \o <<Newline>> \o JoinLines(Tail(lines))

\* the lines the texts are made of: each marker on a line of its own, a
\* short line, a line of exactly MAX_CAPTION_LENGTH characters, a line one
\* longer, and the empty line
TextLinePool ==
  {<<Marker("SCRIPT:")>>, <<Marker("CAPTION:")>>, <<Marker("HASHTAGS:")>>,
   <<Word(1)>>, <<Word(MAX_CAPTION_LENGTH)>>, <<Word(MAX_CAPTION_LENGTH + 1)>>, <<>>}

RECURSIVE TrimTextLeft(_)
TrimTextLeft(t) == IF t # <<>> /\ IsSpace(Head(t)) THEN TrimTextLeft(Tail(t)) ELSE t

RECURSIVE TrimTextRight(_)
TrimTextRight(t) ==
  IF t # <<>> /\ IsSpace(t[Len(t)]) THEN TrimTextRight(SubSeq(t, 1, Len(t) - 1)) ELSE t

\* String.prototype.trim
TrimText(t) == TrimTextRight(TrimTextLeft(t))

Substring_Whole(t, len) == t

RECURSIVE Substring(_, _)
\* substring(0, len)
Substring(t, len) ==
  IF t = <<>> \/ len <= 0 THEN <<>>
  ELSE IF Head(t).n <= len THEN <<Head(t)>> \o Substring(Tail(t), len - Head(t).n)
  ELSE <<[c |-> Head(t).c, n |-> len]>>

RECURSIVE SkipSpace(_, _)
\* \s* from token at on, greedy: the first token that is no white space
SkipSpace(t, at) == IF at <= Len(t) /\ IsSpace(t[at]) THEN SkipSpace(t, at + 1) ELSE at

\* <marker>\s*\n with the marker at token at: \s* takes the white space
\* after the marker and gives back as little as lets \n match, so the body
\* starts after the last line feed of that white space; 0 when it has none
BodyStart(t, at) ==
  LET feeds == {k \in (at + 1)..(SkipSpace(t, at + 1) - 1) : t[k] = Newline}
  IN IF feeds = {} THEN 0 ELSE (CHOOSE k \in feeds : \A j \in feeds : j <= k) + 1

\* (?=\n\s*<next>|$) at token at; the HASHTAGS pattern has no next marker
Lookahead(t, at, next) ==
  \/ at > Len(t)
  \/ /\ next # ""
     /\ t[at] = Newline
     /\ SkipSpace(t, at + 1) <= Len(t)
     /\ t[SkipSpace(t, at + 1)] = Marker(next)

\* ([\s\S]*?) from token from: the shortest body after which the lookahead holds
BodyEnd(t, from, next) ==
  CHOOSE to \in from..(Len(t) + 1) :
    /\ Lookahead(t, to, next)
    /\ \A j \in from..(to - 1) : ~Lookahead(t, j, next)

NoMatch == [found |-> FALSE, body |-> <<>>]

\* scriptText.match(/<section>\s*\n([\s\S]*?)(?=\n\s*<next>|$)/i): the
\* leftmost marker that a line feed follows, and the captured body
Match(t, section, next) ==
  LET starts == {at \in 1..Len(t) : t[at] = Marker(section) /\ BodyStart(t, at) # 0}
  IN IF starts = {} THEN NoMatch
     ELSE LET at == CHOOSE k \in starts : \A j \in starts : k <= j
              from == BodyStart(t, at)
          IN [found |-> TRUE, body |-> SubSeq(t, from, BodyEnd(t, from, next) - 1)]

\* the caption kept under the maximum length
CutCaption(caption) ==
  IF TextLength(caption) > MAX_CAPTION_LENGTH
  THEN Substring(caption, MAX_CAPTION_LENGTH - ELLIPSIS_LENGTH) \o ELLIPSIS
  ELSE caption

\* Extract SCRIPT section
ExtractScript ==
  /\ parsePc = "script"
  /\ LET scriptMatch == Match(scriptText, "SCRIPT:", "CAPTION:")
     IN parsed' = IF scriptMatch.found
                  THEN [parsed EXCEPT !.script = TrimText(scriptMatch.body)]
                  ELSE parsed
  /\ parsePc' = "caption"
  /\ UNCHANGED scriptText
  /\ UNCHANGED asideParser

\* Extract CAPTION section
ExtractCaption ==
  /\ parsePc = "caption"
  /\ LET captionMatch == Match(scriptText, "CAPTION:", "HASHTAGS:")
     IN parsed' = IF captionMatch.found
                  THEN [parsed EXCEPT !.caption = CutCaption(TrimText(captionMatch.body))]
                  ELSE parsed
  /\ parsePc' = "hashtags"
  /\ UNCHANGED scriptText
  /\ UNCHANGED asideParser

\* Extract HASHTAGS section
ExtractHashtags ==
  /\ parsePc = "hashtags"
  /\ LET hashtagsMatch == Match(scriptText, "HASHTAGS:", "")
     IN parsed' = IF hashtagsMatch.found
                  THEN [parsed EXCEPT !.hashtags = TrimText(hashtagsMatch.body)]
                  ELSE parsed
  /\ parsePc' = "fallback"
  /\ UNCHANGED scriptText
  /\ UNCHANGED asideParser

\* Fallback: if (!result.script) the entire text is the script; then return
FallbackAndReturn ==
  /\ parsePc = "fallback"
  /\ parsed' = IF parsed.script = <<>>
               THEN [script |-> scriptText,
                     caption |-> Substring(scriptText, MAX_CAPTION_LENGTH - ELLIPSIS_LENGTH) \o ELLIPSIS,
                     hashtags |-> FallbackHashtags]
               ELSE parsed
  /\ parsePc' = "returned"
  /\ UNCHANGED scriptText
  /\ UNCHANGED asideParser

InitParse ==
  /\ RunIdle
  /\ SynthIdle
  /\ MusicIdle
  /\ RaceIdle
  /\ FlowIdle
  /\ BatchIdle
  /\ OverlayIdle
  /\ SweepIdle
  /\ RetryIdle
  /\ FetchIdle
  /\ JoinerIdle
  /\ LegacyIdle
  /\ SchedIdle
  /\ scriptText \in {JoinLines(lines) : lines \in SeqsUpTo(TextLinePool, MaxTextLines)}
  /\ parsePc = "script"
  /\ parsed = EmptyViralScript

NextParse ==
  \/ ExtractScript
  \/ ExtractCaption
  \/ ExtractHashtags
  \/ FallbackAndReturn

SpecParse == InitParse /\ [][NextParse]_vars

\* the body of the SCRIPT section, trimmed, when there is one
ScriptSection == TrimText(Match(scriptText, "SCRIPT:", "CAPTION:").body)

\* the body of the CAPTION section, trimmed, when there is one
CaptionSection == TrimText(Match(scriptText, "CAPTION:", "HASHTAGS:").body)

\* C38: the caption parseViralScript holds or returns has at most 150
\* characters; a caption section longer than that, beside a script section,
\* comes back as its first 147 characters and '...'; the returned script is
\* not empty unless the text is, and is the whole text when no SCRIPT:
\* section is found
C38_CaptionBoundedScriptNonEmpty ==
  /\ TextLength(parsed.caption) <= 150
  /\ parsePc = "returned" =>
       /\ scriptText # <<>> => TextLength(parsed.script) > 0
       /\ ~Match(scriptText, "SCRIPT:", "CAPTION:").found => parsed.script = scriptText
       /\ (ScriptSection # <<>> /\ TextLength(CaptionSection) > 150) =>
            /\ TextLength(parsed.caption) = 150
            /\ SubSeq(parsed.caption, 1, Len(parsed.caption) - 1) = Substring(CaptionSection, 147)
            /\ parsed.caption[Len(parsed.caption)] = [c |-> ".", n |-> 3]

C38_Witness ==
  /\ parsePc = "returned"
  /\ parsed.script = <<Word(1)>>
  /\ CaptionSection = <<Word(151)>>
  /\ parsed.caption = <<Word(147), [c |-> ".", n |-> 3]>>
  /\ Match(scriptText, "CAPTION:", "HASHTAGS:").body # Match(scriptText, "CAPTION:", "").body

====
